---------------------------- MODULE Spec2Model ----------------------------
(***************************************************************************)
(* Model of the browser scripts of igniteagency/wesley-webflow-site:       *)
(*   - the script loader of src/entry.ts (window.loadScript) and the       *)
(*     bootstraps of the component scripts that wait for a library,        *)
(*   - the InlineVimeoPlayer controller (hover / click playback),          *)
(*   - the StorySlider boundary hand-off between story dialogs.            *)
(* Strings are sequences of tokens: a URL is <<scheme, rest...>>, so that  *)
(* startsWith, includes and concatenation are computed, not assumed.       *)
(***************************************************************************)
EXTENDS Integers, Sequences, FiniteSets, TLC

(***************************************************************************)
(* Bounds of the model                                                     *)
(***************************************************************************)
MaxCalls == 3

MaxPreloads == 1

NumWraps == 2

MaxHandlers == 2

MaxStories == 3

MaxNodes == 4

NumTabComponents == 2

MaxTabs == 2

MaxTimers == 2

MaxDialogs == 3

MaxTriggers == 2
\* GSAPDragSlider components on a page
NumGsapSliders == 1
\* slides of a GSAPDragSlider component
MaxSlides == 2
\* elements of a page that match one selector
MaxMatches == 2
\* elements of a page around its marquee lists
MaxElems == 4
\* content modals on a page
NumModals == 2
\* slides in the scroll container of a content modal
MaxModalSlides == 3
\* entries the IntersectionObserver holds queued between two callbacks
MaxEntries == 3
\* promise chains of one VimeoPlayers container pending at the same time
MaxChains == 2
\* <details> tabs of the switching-tabs component whose animations are followed
MaxPanelTabs == 3
\* closing tweens pending on the content of one tab
MaxTweens == 2

(***************************************************************************)
(* Values                                                                  *)
(***************************************************************************)
NoName == "undefined"

NoError == <<>>

HTTPS == "https://"

\* $dev/env: the local development origin
LOCAL_SERVER == <<"http://", "localhost:3000/">>

\* entry.ts getProductionBase(branch)
getProductionBase(branch) ==
    LET branchPrefix == IF branch = "" THEN <<>> ELSE <<"@", branch>>
    IN  <<HTTPS, "cdn.jsdelivr.net/gh/igniteagency/{{repo}}">> \o branchPrefix \o <<"/dist/prod/">>

\* String.prototype.includes on a tokenised host name
includes(str, tok) == \E i \in 1..Len(str) : str[i] = tok

Hostnames == { <<"wesley-site", ".", "webflow.io">>, <<"www.", "wesley", ".", "com">> }

\* entry.ts window.PRODUCTION_BASE
PRODUCTION_BASE(host) ==
    IF ~includes(host, "webflow.io") THEN getProductionBase("") ELSE getProductionBase("dev")

\* entry.ts const relativePathBase, evaluated once when the entry point runs
relativePathBaseOf(env, host) ==
    IF env = "local" THEN LOCAL_SERVER ELSE PRODUCTION_BASE(host)

SwiperUrl == <<HTTPS, "cdn.jsdelivr.net/npm/swiper@12/swiper-bundle.min.js">>

VimeoUrl == <<HTTPS, "player.vimeo.com/api/player.js">>

RelUrl == <<"components/slider.js">>

\* an absolute URL that names the same resource as RelUrl under the production base
AbsSameUrl == getProductionBase("") \o RelUrl

LoaderUrls == {RelUrl, AbsSameUrl, SwiperUrl}

\* a URL of another scheme than https
HttpUrl == <<"http://", "example.com/lib.js">>

\* the URLs page code passes to loadScript, the plain-http one included
ResolveUrls == LoaderUrls \cup {HttpUrl}

LoaderNames == {NoName, "swiper"}

PreloadUrls == {SwiperUrl, VimeoUrl}

Controllers == {"Slider", "InlineVimeoPlayer", "VimeoPlayers", "GSAPDragSlider"}

VARIABLES
    scriptsEnv,        \* window.SCRIPTS_ENV
    hostname,          \* window.location.hostname
    relativePathBase,  \* entry.ts const relativePathBase
    scripts,           \* <script> elements of the document, in attachment order
    calls,             \* loadScript calls made so far, with the state of the returned promise
    events,            \* CustomEvents dispatched on the document, in order
    listeners,         \* document.addEventListener registrations of the component scripts
    webflowReady,      \* the host-ready signal has fired
    readyQueue,        \* window.Webflow callbacks pushed before the ready signal
    scriptsRun,        \* component scripts whose top level has executed
    constructed,       \* number of controller instances constructed, per controller
    preloads           \* number of page-level loadScript calls for a library URL

loaderVars == <<scriptsEnv, hostname, relativePathBase, scripts, calls, events,
                listeners, webflowReady, readyQueue, scriptsRun, constructed, preloads>>

NULL == 0

Wraps == 1..NumWraps

VARIABLES
    wrapInit,          \* per wrap: "observed", "initializing", "ready" or "failed"
    isClickPlaying,    \* per wrap: the closure variable isClickPlaying
    currentlyPlaying,  \* this.currentlyPlaying: a wrap or NULL
    playState,         \* per wrap: the data-play-state attribute ("unset" when absent)
    paused,            \* per wrap: the Vimeo player is paused
    pending            \* per player: the handlers suspended on a call to it, in call order

vimeoVars == <<wrapInit, isClickPlaying, currentlyPlaying, playState, paused, pending>>

Stories == 0..(MaxStories - 1)

VARIABLES
    storyVariant,      \* which StorySlider of story-slider.ts the page runs
    storyCount,        \* this.storyItemCount: number of .stories_item in the section
    storyHasDialog,    \* per story item: it contains a dialog[data-dialog-id]
    dialogOpen,        \* per story item: its dialog is open
    lastHandoff,       \* the hand-off handled last: source item and direction
    handoffEvents      \* the events that handler dispatched, in order

storyVars ==
    <<storyVariant, storyCount, storyHasDialog, dialogOpen, lastHandoff, handoffEvents>>

\* the elements of the document, numbered in document order
Nodes == 1..MaxNodes

VARIABLES
    sliderVariant,     \* which Slider class the page runs: how it picks the .swiper element
    domParent,         \* per element: its parent element, NULL for a child of the body
    domKind,           \* per element: what the selectors of Slider match it as
    sliderConstructed, \* new Slider() has run
    swipers            \* the Swiper instances created by initSliders, in creation order

sliderVars == <<sliderVariant, domParent, domKind, sliderConstructed, swipers>>

\* the [data-el="switching-tabs-component"] elements, in document order
TabComponents == 1..NumTabComponents

VARIABLES
    tabsVariant,       \* which AutoRotatingTabs class runs: with or without AbortController
    tabShape,          \* per component: its <details> elements, what each one contains
    tabsInit,          \* initAutoRotatingTabs: "none", "done" or "threw"
    tabStatus,         \* per component: outcome of new AutoRotatingTabs(component)
    mediaMatches,      \* window.matchMedia('(min-width: 992px)').matches
    currentTabIndex,   \* per instance: this.currentTabIndex
    intervalId,        \* per instance: this.intervalId
    timers,            \* per instance: ids of its intervals that are set and not cleared
    isInView,          \* per instance: this.isInView
    observer,          \* per instance: this.intersectionObserver
    listening          \* per instance: its click and media-query listeners are attached

tabsVars ==
    <<tabsVariant, tabShape, tabsInit, tabStatus, mediaMatches, currentTabIndex, intervalId,
      timers, isInView, observer, listening>>

\* the dialog[data-dialog-id] elements and the trigger elements, in document order
Dialogs == 1..MaxDialogs

Triggers == 1..MaxTriggers

VARIABLES
    dlgId,             \* per dialog: its data-dialog-id, NoId when the attribute is empty
    trigKind,          \* per trigger: "open" (data-dialog-open) or "close" (data-dialog-close)
    trigId,            \* per trigger: the identifier its attribute carries
    trigIn,            \* per trigger: the dialog it is inside, NULL when outside all dialogs
    dlgInit,           \* new Dialog() has run
    dlgBound,          \* the click listeners of init: pairs <<trigger, dialog>>
    modalOpen          \* per dialog: it is open

dialogVars == <<dlgId, trigKind, trigId, trigIn, dlgInit, dlgBound, modalOpen>>

\* the [data-gsap-slider-el="component"] elements, in document order
GsapSliders == 1..NumGsapSliders

VARIABLES
    gsapAutoplay,      \* per component: data-gsap-slider-autoplay is 'true'
    slidesCount,       \* per component: this.slidesCount
    gsapInit,          \* the 'scriptLoaded' listener of the component script has run
    autoplayInterval,  \* per instance: the autoplayInterval of setupAutoplay
    gsapTimers,        \* per instance: ids of its intervals that are set and not cleared
    gsapObserving,     \* per instance: its IntersectionObserver observes the component
    gsapIndex,         \* per instance: index of the active slide of the loop
    autoplayActive     \* per component: it carries the is-autoplay-active class

gsapVars ==
    <<gsapAutoplay, slidesCount, gsapInit, autoplayInterval, gsapTimers, gsapObserving,
      gsapIndex, autoplayActive>>

VARIABLES
    matches,           \* per selector: how many elements of the document match it
    condCalls          \* the selectors conditionalLoadScript was called with, in call order

condVars == <<matches, condCalls>>

VARIABLES
    marqueeDoc,        \* the elements of the page in document order, each with its depth
    marqueeDone        \* duplicateMarqueeList has run

marqueeVars == <<marqueeDoc, marqueeDone>>

VARIABLES
    finePointer,       \* window.matchMedia('(pointer: fine)').matches
    hasFollower,       \* the container holds a [data-cursor-follow="element"]
    cursorStatus,      \* initCursorFollow for the container: "none", "skipped", "listening"
    containerRect,     \* what container.getBoundingClientRect() returns now
    followerSize,      \* what follower.offsetWidth and offsetHeight return now
    rect,              \* the cached rect of the closure
    followerW,         \* the cached followerW of the closure
    followerH,         \* the cached followerH of the closure
    primed,            \* the primed flag of the closure
    followerXY,        \* the x and y the follower was last set or sent to, doubled
    followerOpacity,   \* the opacity the follower was last set or sent to
    lastEvent          \* the type of the event handled last

cursorVars ==
    <<finePointer, hasFollower, cursorStatus, containerRect, followerSize, rect, followerW,
      followerH, primed, followerXY, followerOpacity, lastEvent>>

VARIABLES
    wrapperAttrs,      \* the four data- attributes of the .swiper-wrapper of a slider
    swiperOptions      \* the options initSliders passes to new Swiper for it

optionVars == <<wrapperAttrs, swiperOptions>>

\* the dialog[data-el="content-modal"] elements, in document order
Modals == 1..NumModals

VARIABLES
    modalShape,        \* per modal: data-modal-type, scroll container present, its slides
    contentModalInit,  \* new ContentModal() has run
    isStorySlider,     \* this.isStorySlider of the ContentModal instance
    modalBound,        \* per modal: initSlider attached its listeners
    scrollLeft,        \* per modal: container.scrollLeft
    lastScroll         \* the last handleScroll call and what it did

modalVars == <<modalShape, contentModalInit, isStorySlider, modalBound, scrollLeft, lastScroll>>

VARIABLES
    observing,          \* the wraps the IntersectionObserver of InlineVimeoPlayer observes
    prevIntersecting,   \* per wrap: isIntersecting of the last entry queued ("unknown" before the first)
    queuedEntries,      \* the entries queued for the next observer callback
    wrapHasUrl,         \* per wrap: the data-video-url attribute is set
    initRuns,           \* the initializeVideo invocations started, each with the await it is at
    playersConstructed, \* per wrap: number of new window.Vimeo.Player(wrap, ...) executed
    playersDestroyed,   \* per wrap: number of players destroyed
    listenerSets,       \* per wrap: number of times the hover/click listeners were attached
    videoInstances,     \* the keys of this.videoInstances
    observerDestroyed   \* destroy() has returned

obsVars == <<observing, prevIntersecting, queuedEntries, wrapHasUrl, initRuns, playersConstructed,
             playersDestroyed, listenerSets, videoInstances, observerDestroyed>>

VARIABLES
    closeQueued,       \* the dialogs for which the browser has queued a native close event
    episode            \* the last user operation on a dialog and the events dispatched for it

dlgEventVars == <<closeQueued, episode>>

VARIABLES
    hasPlayPauseButton, \* the container holds a [data-vimeo-play-pause-button]
    isFullMode,         \* the closure variable isFullMode of the container
    isSnippetActive,    \* the closure variable isSnippetActive
    isRewindingSnippet, \* the closure variable isRewindingSnippet
    vpPaused,           \* the player is paused
    vpMuted,            \* the player is muted
    vpVolume,           \* the player's volume, 0 or 1
    vpPosition,         \* the playback position: "snippetStart", "fullStart" or "played"
    chains,             \* the promise chains awaiting a player call, in call order
    toggle              \* the last click on the play/pause button made with no call pending

vpVars == <<hasPlayPauseButton, isFullMode, isSnippetActive, isRewindingSnippet, vpPaused, vpMuted,
            vpVolume, vpPosition, chains, toggle>>

\* the <details> of one switching-tabs component, 0-based as this.tabs
PanelTabs == 0..(MaxPanelTabs - 1)

VARIABLES
    overwrite,         \* the tweens are made with overwrite: true (switching-tabs.ts) or without (slider.ts)
    panelCount,        \* this.tabs.length
    panelIndex,        \* this.currentTabIndex
    panelOpen,         \* per tab: the open property of the <details>
    panelClosing,      \* per tab: it carries the is-closing class
    closeTweens,       \* per tab: closing tweens pending on its content
    openTween          \* per tab: an opening tween is pending on its content

panelVars == <<overwrite, panelCount, panelIndex, panelOpen, panelClosing, closeTweens, openTween>>

vars == <<loaderVars, vimeoVars, storyVars, sliderVars, tabsVars, dialogVars, gsapVars, condVars, marqueeVars, cursorVars, optionVars, modalVars, obsVars, dlgEventVars, vpVars, panelVars>>

\* what an action of one component leaves alone: the state of the other components
notLoaderVars == <<vimeoVars, storyVars, sliderVars, tabsVars, dialogVars, gsapVars, condVars, marqueeVars, cursorVars, optionVars, modalVars, obsVars, dlgEventVars, vpVars, panelVars>>

notVimeoVars == <<loaderVars, storyVars, sliderVars, tabsVars, dialogVars, gsapVars, condVars, marqueeVars, cursorVars, optionVars, modalVars, obsVars, dlgEventVars, vpVars, panelVars>>

notStoryVars == <<loaderVars, vimeoVars, sliderVars, tabsVars, dialogVars, gsapVars, condVars, marqueeVars, cursorVars, optionVars, modalVars, obsVars, dlgEventVars, vpVars, panelVars>>

notStoryModalVars == <<loaderVars, vimeoVars, sliderVars, tabsVars, dialogVars, gsapVars, condVars, marqueeVars, cursorVars, optionVars, obsVars, dlgEventVars, vpVars, panelVars>>

notSliderVars == <<loaderVars, vimeoVars, storyVars, tabsVars, dialogVars, gsapVars, condVars, marqueeVars, cursorVars, optionVars, modalVars, obsVars, dlgEventVars, vpVars, panelVars>>

notTabsVars == <<loaderVars, vimeoVars, storyVars, sliderVars, dialogVars, gsapVars, condVars, marqueeVars, cursorVars, optionVars, modalVars, obsVars, dlgEventVars, vpVars, panelVars>>

notDialogVars == <<loaderVars, vimeoVars, storyVars, sliderVars, tabsVars, gsapVars, condVars, marqueeVars, cursorVars, optionVars, modalVars, obsVars, dlgEventVars, vpVars, panelVars>>

notGsapVars == <<loaderVars, vimeoVars, storyVars, sliderVars, tabsVars, dialogVars, condVars, marqueeVars, cursorVars, optionVars, modalVars, obsVars, dlgEventVars, vpVars, panelVars>>

notLoaderCondVars == <<vimeoVars, storyVars, sliderVars, tabsVars, dialogVars, gsapVars, marqueeVars, cursorVars, optionVars, modalVars, obsVars, dlgEventVars, vpVars, panelVars>>

notMarqueeVars == <<loaderVars, vimeoVars, storyVars, sliderVars, tabsVars, dialogVars, gsapVars, condVars, cursorVars, optionVars, modalVars, obsVars, dlgEventVars, vpVars, panelVars>>

notCursorVars == <<loaderVars, vimeoVars, storyVars, sliderVars, tabsVars, dialogVars, gsapVars, condVars, marqueeVars, optionVars, modalVars, obsVars, dlgEventVars, vpVars, panelVars>>

notOptionVars == <<loaderVars, vimeoVars, storyVars, sliderVars, tabsVars, dialogVars, gsapVars, condVars, marqueeVars, cursorVars, modalVars, obsVars, dlgEventVars, vpVars, panelVars>>

notModalVars == <<loaderVars, vimeoVars, storyVars, sliderVars, tabsVars, dialogVars, gsapVars, condVars, marqueeVars, cursorVars, optionVars, obsVars, dlgEventVars, vpVars, panelVars>>

notObsVars == <<loaderVars, vimeoVars, storyVars, sliderVars, tabsVars, dialogVars, gsapVars, condVars, marqueeVars, cursorVars, optionVars, modalVars, dlgEventVars, vpVars, panelVars>>

notDlgEventVars == <<loaderVars, vimeoVars, storyVars, sliderVars, tabsVars, dialogVars, gsapVars, condVars, marqueeVars, cursorVars, optionVars, modalVars, obsVars, vpVars, panelVars>>

notDialogEventVars == <<loaderVars, vimeoVars, storyVars, sliderVars, tabsVars, gsapVars, condVars, marqueeVars, cursorVars, optionVars, modalVars, obsVars, vpVars, panelVars>>

notVpVars == <<loaderVars, vimeoVars, storyVars, sliderVars, tabsVars, dialogVars, gsapVars, condVars, marqueeVars, cursorVars, optionVars, modalVars, obsVars, dlgEventVars, panelVars>>

notPanelVars == <<loaderVars, vimeoVars, storyVars, sliderVars, tabsVars, dialogVars, gsapVars, condVars, marqueeVars, cursorVars, optionVars, modalVars, obsVars, dlgEventVars, vpVars>>

isAbsolute_AnyScheme(url) == Len(url) >= 1 /\ url[1] \in {HTTPS, "http://"}

(***************************************************************************)
(* entry.ts: window.loadScript                                             *)
(***************************************************************************)
\* url.startsWith('https://')
isAbsolute(url) == Len(url) >= 1 /\ url[1] = HTTPS

\* const finalUrl = isAbsolute ? url : relativePathBase + url
finalUrlOf(url) == IF isAbsolute(url) THEN url ELSE relativePathBase \o url

AlreadyAttached_Never(finalUrl) == FALSE

\* document.querySelector(`script[src="${finalUrl}"]`)
AlreadyAttached(finalUrl) == \E i \in 1..Len(scripts) : scripts[i].src = finalUrl

ErrorMessage_RawUrl(url, finalUrl) == <<"Failed to load script: ">> \o url

\* new Error(`Failed to load script: ${finalUrl}`)
ErrorMessage(url, finalUrl) == <<"Failed to load script: ">> \o finalUrl

EventDetail_RawUrl(call) == [url |-> call.url, name |-> call.name]

\* detail: { url: finalUrl, name: opts.name }
EventDetail(call) == [url |-> call.finalUrl, name |-> call.name]

\* new CustomEvent(`scriptLoaded:${opts.name}`, { detail })
ScriptLoadedEvent(call) == [type |-> <<"scriptLoaded:", call.name>>, detail |-> EventDetail(call)]

\* The body of loadScript up to its return: the new values of scripts and calls.
LoadScript(url, name) ==
    LET finalUrl == finalUrlOf(url)
        id == Len(calls) + 1
    IN  IF AlreadyAttached(finalUrl)
        THEN /\ calls' = Append(calls, [url |-> url, name |-> name, finalUrl |-> finalUrl,
                                        promise |-> "resolved", error |-> NoError,
                                        attached |-> FALSE])
             /\ scripts' = scripts
        ELSE /\ calls' = Append(calls, [url |-> url, name |-> name, finalUrl |-> finalUrl,
                                        promise |-> "pending", error |-> NoError,
                                        attached |-> TRUE])
             /\ scripts' = Append(scripts, [src |-> finalUrl, status |-> "loading", call |-> id])

\* the listeners a dispatched event reaches, in registration order
Matching(type) == SelectSeq(listeners, LAMBDA l : l.type = type)

RECURSIVE CountCtrl(_, _)
CountCtrl(ls, c) ==
    IF ls = <<>> THEN 0
    ELSE (IF Head(ls).ctrl = c THEN 1 ELSE 0) + CountCtrl(Tail(ls), c)

\* document.dispatchEvent(ev): every matching listener runs (each constructs its
\* controller); a listener registered with { once: true } is removed.
Dispatch(ev) ==
    /\ events' = Append(events, ev)
    /\ constructed' = [c \in Controllers |-> constructed[c] + CountCtrl(Matching(ev.type), c)]
    /\ listeners' = SelectSeq(listeners, LAMBDA l : ~(l.type = ev.type /\ l.once))

\* script.onerror = () => reject(new Error(...))
OnerrorRejects(c) ==
    [c EXCEPT !.promise = "rejected", !.error = ErrorMessage(c.url, c.finalUrl)]

\* script.onload
ScriptOnload(i) ==
    /\ i \in 1..Len(scripts)
    /\ scripts[i].status = "loading"
    /\ scripts' = [scripts EXCEPT ![i].status = "loaded"]
    /\ LET c == calls[scripts[i].call]
       IN  /\ IF c.name # NoName
              THEN Dispatch(ScriptLoadedEvent(c))
              ELSE UNCHANGED <<events, constructed, listeners>>
           /\ calls' = [calls EXCEPT ![scripts[i].call].promise = "resolved"]
    /\ UNCHANGED <<scriptsEnv, hostname, relativePathBase, webflowReady, readyQueue,
                   scriptsRun, preloads>>
    /\ UNCHANGED notLoaderVars

ScriptsAfterOnerror_Removed(sc, i) ==
    [j \in 1..(Len(sc) - 1) |-> IF j < i THEN sc[j] ELSE sc[j + 1]]

\* the document's script elements after script.onerror of element i: the handler only
\* rejects, the element stays in document.head
ScriptsAfterOnerror(sc, i) == [sc EXCEPT ![i].status = "error"]

\* script.onerror
ScriptOnerror(i) ==
    /\ i \in 1..Len(scripts)
    /\ scripts[i].status = "loading"
    /\ scripts' = ScriptsAfterOnerror(scripts, i)
    /\ calls' = [calls EXCEPT ![scripts[i].call] = OnerrorRejects(calls[scripts[i].call])]
    /\ UNCHANGED <<scriptsEnv, hostname, relativePathBase, events, listeners, webflowReady,
                   readyQueue, scriptsRun, constructed, preloads>>
    /\ UNCHANGED notLoaderVars

\* a loadScript call made by page code
LoadScriptCall(url, name) ==
    /\ Len(calls) < MaxCalls
    /\ LoadScript(url, name)
    /\ UNCHANGED <<scriptsEnv, hostname, relativePathBase, events, listeners, webflowReady,
                   readyQueue, scriptsRun, constructed, preloads>>
    /\ UNCHANGED notLoaderVars


ScriptsAfterModeSwitch_Refetch(env) ==
    [i \in 1..Len(scripts) |-> [scripts[i] EXCEPT !.status = "loading"]]

\* setScriptMode touches no script element
ScriptsAfterModeSwitch(env) == scripts

\* window.setScriptMode(env): the mode is kept in window.SCRIPTS_ENV only; the
\* const relativePathBase of entry.ts was evaluated when the entry point ran
SetScriptMode(env) ==
    /\ scriptsEnv' = env
    /\ scripts' = ScriptsAfterModeSwitch(env)
    /\ UNCHANGED <<hostname, relativePathBase, calls, events, listeners, webflowReady,
                   readyQueue, scriptsRun, constructed, preloads>>
    /\ UNCHANGED notLoaderVars


(***************************************************************************)
(* window.conditionalLoadScript and its calls in UIFunctions               *)
(***************************************************************************)
\* the selectors UIFunctions passes to conditionalLoadScript
Selectors == {".swiper", "[data-el=\"counter\"]", "[data-el=\"content-modal\"]"}

\* the URL UIFunctions passes with each selector
UrlFor(selector) ==
    IF selector = ".swiper" THEN RelUrl
    ELSE IF selector = "[data-el=\"counter\"]" THEN <<"components/counter.js">>
    ELSE <<"components/content-modal.js">>

SelectorFound_Always(selector) == TRUE

\* the document is queried for the selector: an element matches it
SelectorFound(selector) == matches[selector] > 0

\* window.conditionalLoadScript(selector, url): loadScript(url) if the selector is
\* found, nothing otherwise
ConditionalLoadScript(selector, url) ==
    /\ Len(condCalls) < MaxCalls
    /\ condCalls' = Append(condCalls, selector)
    /\ IF SelectorFound(selector)
       THEN LoadScript(url, NoName)
       ELSE UNCHANGED <<scripts, calls>>
    /\ UNCHANGED <<scriptsEnv, hostname, relativePathBase, events, listeners, webflowReady,
                   readyQueue, scriptsRun, constructed, preloads, matches>>
    /\ UNCHANGED notLoaderCondVars

\* a page on which conditionalLoadScript is not called
CondIdle ==
    /\ matches = [sel \in Selectors |-> 0]
    /\ condCalls = <<>>

\* a page with up to MaxMatches elements for each selector
InitCond ==
    /\ matches \in [Selectors -> 0..MaxMatches]
    /\ condCalls = <<>>


UIFunctionsSelectors_Rescan ==
    <<".swiper", "[data-el=\"counter\"]", "[data-el=\"content-modal\"]", ".swiper">>

\* the selectors of the conditionalLoadScript calls of UIFunctions, in call order
UIFunctionsSelectors == <<".swiper", "[data-el=\"counter\"]", "[data-el=\"content-modal\"]">>

\* loadScript(url) on the script elements sc and the calls cl: <<scripts, calls>> after it
LoadScriptIn(sc, cl, url, name) ==
    LET finalUrl == finalUrlOf(url)
        attached == \E i \in 1..Len(sc) : sc[i].src = finalUrl
    IN  IF attached
        THEN <<sc, Append(cl, [url |-> url, name |-> name, finalUrl |-> finalUrl,
                               promise |-> "resolved", error |-> NoError, attached |-> FALSE])>>
        ELSE <<Append(sc, [src |-> finalUrl, status |-> "loading", call |-> Len(cl) + 1]),
               Append(cl, [url |-> url, name |-> name, finalUrl |-> finalUrl,
                           promise |-> "pending", error |-> NoError, attached |-> TRUE])>>

\* the conditionalLoadScript calls for the selectors sels, one after the other:
\* <<scripts, calls>> after them
RECURSIVE ConditionalLoads(_, _, _)
ConditionalLoads(sels, sc, cl) ==
    IF sels = <<>> THEN <<sc, cl>>
    ELSE IF SelectorFound(Head(sels))
         THEN LET r == LoadScriptIn(sc, cl, UrlFor(Head(sels)), NoName)
              IN  ConditionalLoads(Tail(sels), r[1], r[2])
         ELSE ConditionalLoads(Tail(sels), sc, cl)

\* UIFunctions(), called once from the Webflow.push callback of the page: the three
\* conditionalLoadScript calls
UIFunctions ==
    /\ ~webflowReady
    /\ webflowReady' = TRUE
    /\ condCalls' = condCalls \o UIFunctionsSelectors
    /\ LET r == ConditionalLoads(UIFunctionsSelectors, scripts, calls)
       IN  scripts' = r[1] /\ calls' = r[2]
    /\ UNCHANGED <<scriptsEnv, hostname, relativePathBase, events, listeners, readyQueue,
                   scriptsRun, constructed, preloads, matches>>
    /\ UNCHANGED notLoaderCondVars


(***************************************************************************)
(* marquee-list.ts: duplicateMarqueeList                                    *)
(***************************************************************************)
\* an element: id is its position in the page as loaded, copy is 0 for an element
\* of the page as loaded and the id of the cloned list for an element of a clone
Element(id, depth, list, copy) == [id |-> id, depth |-> depth, list |-> list, copy |-> copy]

\* the position of the last descendant of the element at position i (i itself if none)
SubtreeEnd(doc, i) ==
    CHOOSE j \in i..Len(doc) :
        /\ \A m \in (i + 1)..j : doc[m].depth > doc[i].depth
        /\ j < Len(doc) => doc[j + 1].depth <= doc[i].depth

\* marqueeList.cloneNode(true): the element and all its descendants
cloneNode(doc, i) ==
    [m \in 1..(SubtreeEnd(doc, i) - i + 1) |-> [doc[i + m - 1] EXCEPT !.copy = doc[i].id]]

\* parentNode.insertBefore(clone, marqueeList.nextSibling): the clone comes right
\* after the list and its descendants
InsertedAt(doc, i) == SubtreeEnd(doc, i)

\* the body of the forEach callback for the list at position i
DuplicateOne(doc, i) ==
    LET at == InsertedAt(doc, i)
    IN  SubSeq(doc, 1, at) \o cloneNode(doc, i) \o SubSeq(doc, at + 1, Len(doc))

\* document.querySelectorAll('[data-el="marquee-list"]'): a static list, the ids of
\* the lists in document order
MarqueeLists(doc) == SelectSeq([m \in 1..Len(doc) |-> doc[m].id], LAMBDA id : doc[id].list)

\* where the element of the loaded page with this id is now
PositionOf(doc, id) == CHOOSE m \in 1..Len(doc) : doc[m].id = id /\ doc[m].copy = 0

\* marqueeLists.forEach(...) over the static list
RECURSIVE ForEachMarquee(_, _)
ForEachMarquee(ids, doc) ==
    IF ids = <<>> THEN doc
    ELSE ForEachMarquee(Tail(ids), DuplicateOne(doc, PositionOf(doc, Head(ids))))

\* duplicateMarqueeList()
DuplicateMarqueeList ==
    /\ ~marqueeDone
    /\ marqueeDone' = TRUE
    /\ marqueeDoc' = ForEachMarquee(MarqueeLists(marqueeDoc), marqueeDoc)
    /\ UNCHANGED notMarqueeVars

\* depths of a forest in document order: the first element is at depth 0 and an
\* element is at most one level below the one before it
IsPreorder(depths) ==
    /\ Len(depths) > 0 => depths[1] = 0
    /\ \A m \in 2..Len(depths) : depths[m] <= depths[m - 1] + 1

\* the pages of up to MaxElems elements, lists or not, nested or not
MarqueePages ==
    UNION {{[m \in 1..n |-> Element(m, depths[m], lists[m], 0)] :
                depths \in {d \in [1..n -> 0..(n - 1)] : IsPreorder(d)},
                lists \in [1..n -> BOOLEAN]} : n \in 0..MaxElems}

\* a page without marquee lists
MarqueeIdle ==
    /\ marqueeDoc = <<>>
    /\ marqueeDone = FALSE

InitMarquee ==
    /\ marqueeDoc \in MarqueePages
    /\ marqueeDone = FALSE


(***************************************************************************)
(* cursor-follow: initCursorFollow                                          *)
(***************************************************************************)
\* const margin = 16
margin == 16

\* the rects the container can have: it moves with scrolling and changes width with
\* the window
ContainerRects ==
    [left : {0}, top : {0, 10}, width : {40, 100}, height : {40, 100}]

\* the sizes the follower can have
FollowerSizes == [w : {10, 30}, h : {10}]

\* pointer positions of an event, in client coordinates
PointerPositions == [clientX : {0, 50, 200}, clientY : {0, 30}]

NoXY == [x |-> 0, y |-> 0]

Max(a, b) == IF a >= b THEN a ELSE b

Min(a, b) == IF a <= b THEN a ELSE b

\* clamp(val, min, max) == Math.min(Math.max(val, min), max)
clamp(val, min, max) == Min(Max(val, min), max)

\* localXY(e) computed from the cached rect r and the cached size w, h; all
\* coordinates doubled, so that followerW / 2 stays an integer
localXY(e, r, w, h) ==
    LET x == 2 * (e.clientX - r.left)
        y == 2 * (e.clientY - r.top)
        minX == w + 2 * margin
        maxX == 2 * r.width - w - 2 * margin
        minY == h + 2 * margin
        maxY == 2 * r.height - h - 2 * margin
    IN  [x |-> clamp(x, minX, maxX), y |-> clamp(y, minY, maxY)]

RectAfter_EveryEvent(type) == containerRect

\* the cached rect after an event of the given type was handled: the listeners of
\* resize and scroll are updateRect, and the pointerenter listener calls updateRect()
RectAfter(type) ==
    IF type \in {"resize", "scroll", "pointerenter"} THEN containerRect ELSE rect

\* the cached follower size after an event of the given type: updateSize listens to
\* resize and is called by the pointerenter listener
SizeAfter(type) ==
    IF type \in {"resize", "pointerenter"} THEN followerSize ELSE [w |-> followerW, h |-> followerH]

\* initCursorFollow() for the container of the page
InitCursorFollow ==
    /\ cursorStatus = "none"
    /\ IF finePointer /\ hasFollower
       THEN /\ cursorStatus' = "listening"
            /\ rect' = containerRect
            /\ followerW' = followerSize.w
            /\ followerH' = followerSize.h
       ELSE /\ cursorStatus' = "skipped"
            /\ UNCHANGED <<rect, followerW, followerH>>
    /\ UNCHANGED <<finePointer, hasFollower, containerRect, followerSize, primed, followerXY,
                   followerOpacity, lastEvent>>
    /\ UNCHANGED notCursorVars

\* after initCursorFollow the page is scrolled or laid out again: the container and
\* the follower get another rect and size; no listener runs yet
Layout(r, size) ==
    /\ cursorStatus # "none"
    /\ containerRect' = r
    /\ followerSize' = size
    /\ <<r, size>> # <<containerRect, followerSize>>
    /\ UNCHANGED <<finePointer, hasFollower, cursorStatus, rect, followerW, followerH, primed,
                   followerXY, followerOpacity, lastEvent>>
    /\ UNCHANGED notCursorVars

\* a resize or scroll event on window
WindowEvent(type) ==
    /\ cursorStatus = "listening"
    /\ lastEvent' = type
    /\ rect' = RectAfter(type)
    /\ followerW' = SizeAfter(type).w
    /\ followerH' = SizeAfter(type).h
    /\ UNCHANGED <<finePointer, hasFollower, cursorStatus, containerRect, followerSize, primed,
                   followerXY, followerOpacity>>
    /\ UNCHANGED notCursorVars

\* the pointerenter listener
PointerEnter(e) ==
    /\ cursorStatus = "listening"
    /\ lastEvent' = "pointerenter"
    /\ rect' = RectAfter("pointerenter")
    /\ followerW' = SizeAfter("pointerenter").w
    /\ followerH' = SizeAfter("pointerenter").h
    /\ followerXY' = localXY(e, rect', followerW', followerH')
    /\ followerOpacity' = 1
    /\ primed' = TRUE
    /\ UNCHANGED <<finePointer, hasFollower, cursorStatus, containerRect, followerSize>>
    /\ UNCHANGED notCursorVars

\* the pointermove listener
PointerMove(e) ==
    /\ cursorStatus = "listening"
    /\ lastEvent' = "pointermove"
    /\ rect' = RectAfter("pointermove")
    /\ followerXY' = localXY(e, rect', followerW, followerH)
    /\ primed' = TRUE
    /\ UNCHANGED <<finePointer, hasFollower, cursorStatus, containerRect, followerSize,
                   followerW, followerH, followerOpacity>>
    /\ UNCHANGED notCursorVars

\* the pointerleave listener
PointerLeave ==
    /\ cursorStatus = "listening"
    /\ lastEvent' = "pointerleave"
    /\ rect' = RectAfter("pointerleave")
    /\ followerOpacity' = 0
    /\ primed' = FALSE
    /\ UNCHANGED <<finePointer, hasFollower, cursorStatus, containerRect, followerSize,
                   followerW, followerH, followerXY>>
    /\ UNCHANGED notCursorVars

\* a page without cursor-follow container
CursorIdle ==
    /\ finePointer = FALSE
    /\ hasFollower = FALSE
    /\ cursorStatus = "none"
    /\ containerRect = [left |-> 0, top |-> 0, width |-> 40, height |-> 40]
    /\ followerSize = [w |-> 10, h |-> 10]
    /\ rect = containerRect
    /\ followerW = 0
    /\ followerH = 0
    /\ primed = FALSE
    /\ followerXY = NoXY
    /\ followerOpacity = 0
    /\ lastEvent = "none"

\* a page with a cursor-follow container, before initCursorFollow
InitCursor ==
    /\ finePointer \in BOOLEAN
    /\ hasFollower \in BOOLEAN
    /\ cursorStatus = "none"
    /\ containerRect \in ContainerRects
    /\ followerSize \in FollowerSizes
    /\ rect = containerRect
    /\ followerW = 0
    /\ followerH = 0
    /\ primed = FALSE
    /\ followerXY = NoXY
    /\ followerOpacity = 0
    /\ lastEvent = "none"


(***************************************************************************)
(* slider.ts: Slider.initSliders, the options read from the wrapper          *)
(***************************************************************************)
\* what getAttribute returns: null, or the string as a sequence of characters
Absent == [present |-> FALSE, value |-> <<>>]

Attr(str) == [present |-> TRUE, value |-> str]

\* values of Number.parseInt and Number.parseFloat, and the 'auto' of slidesPerView
NaN == [kind |-> "NaN", val |-> 0]

Number(v) == [kind |-> "number", val |-> v]

Auto == [kind |-> "auto", val |-> 0]

UpperLetters ==
    <<"A", "B", "C", "D", "E", "F", "G", "H", "I", "J", "K", "L", "M",
      "N", "O", "P", "Q", "R", "S", "T", "U", "V", "W", "X", "Y", "Z">>

LowerLetters ==
    <<"a", "b", "c", "d", "e", "f", "g", "h", "i", "j", "k", "l", "m",
      "n", "o", "p", "q", "r", "s", "t", "u", "v", "w", "x", "y", "z">>

Digits == <<"0", "1", "2", "3", "4", "5", "6", "7", "8", "9">>

IsDigit(c) == \E d \in 1..Len(Digits) : Digits[d] = c

DigitVal(c) == (CHOOSE d \in 1..Len(Digits) : Digits[d] = c) - 1

\* String.prototype.toLowerCase
toLowerCase(str) ==
    [m \in 1..Len(str) |->
        IF \E l \in 1..Len(UpperLetters) : UpperLetters[l] = str[m]
        THEN LowerLetters[CHOOSE l \in 1..Len(UpperLetters) : UpperLetters[l] = str[m]]
        ELSE str[m]]

RECURSIVE TrimStart(_)
TrimStart(str) == IF str # <<>> /\ Head(str) = " " THEN TrimStart(Tail(str)) ELSE str

RECURSIVE TrimEnd(_)
TrimEnd(str) ==
    IF str # <<>> /\ str[Len(str)] = " " THEN TrimEnd(SubSeq(str, 1, Len(str) - 1)) ELSE str

\* String.prototype.trim
trim(str) == TrimEnd(TrimStart(str))

\* the longest prefix of str made of digits
RECURSIVE DigitPrefix(_)
DigitPrefix(str) ==
    IF str # <<>> /\ IsDigit(Head(str)) THEN <<Head(str)>> \o DigitPrefix(Tail(str)) ELSE <<>>

\* the number a sequence of digits denotes
RECURSIVE ValueOf(_)
ValueOf(ds) ==
    IF ds = <<>> THEN 0 ELSE 10 * ValueOf(SubSeq(ds, 1, Len(ds) - 1)) + DigitVal(ds[Len(ds)])

\* the sign prefix of a numeric string and what follows it
Signed(str) ==
    LET t == TrimStart(str)
    IN  IF t # <<>> /\ Head(t) \in {"-", "+"}
        THEN [sign |-> IF Head(t) = "-" THEN -1 ELSE 1, rest |-> Tail(t)]
        ELSE [sign |-> 1, rest |-> t]

\* Number.parseInt(str, 10): leading white space and a sign are skipped, the digits
\* up to the first other character are read, NaN if there is none
parseInt(str) ==
    LET sg == Signed(str)
        ds == DigitPrefix(sg.rest)
    IN  IF ds = <<>> THEN NaN ELSE Number(sg.sign * ValueOf(ds))

\* Number.parseFloat(str), in tenths: as parseInt, with an optional fraction, of
\* which the first digit is kept
parseFloat(str) ==
    LET sg == Signed(str)
        ds == DigitPrefix(sg.rest)
        after == SubSeq(sg.rest, Len(ds) + 1, Len(sg.rest))
        fs == IF after # <<>> /\ Head(after) = "." THEN DigitPrefix(Tail(after)) ELSE <<>>
    IN  IF ds = <<>> /\ fs = <<>> THEN NaN
        ELSE Number(sg.sign * (10 * ValueOf(ds) + (IF fs = <<>> THEN 0 ELSE DigitVal(fs[1]))))

\* lines 71-76: spaceBetween
spaceBetweenOf(attr) ==
    LET parsedSpaceBetween == IF attr.present THEN parseInt(attr.value) ELSE NaN
    IN  IF parsedSpaceBetween = NaN THEN Number(32) ELSE parsedSpaceBetween

\* lines 79-83 and 112-114: slidesPerView, a number in tenths or 'auto'
slidesPerViewOf(attr) ==
    LET slidesPerView ==
            IF attr.present /\ attr.value # <<>>
                    /\ toLowerCase(trim(attr.value)) # <<"a", "u", "t", "o">>
            THEN parseFloat(attr.value)
            ELSE Auto
    IN  IF slidesPerView = NaN THEN Auto ELSE slidesPerView

isFalseWord_OnlyFalse(val) == val = <<"f", "a", "l", "s", "e">>

\* val === 'false' || val === '0' || val === 'no' || val === 'off'
isFalseWord(val) ==
    val \in {<<"f", "a", "l", "s", "e">>, <<"0">>, <<"n", "o">>, <<"o", "f", "f">>}

\* lines 86-95 and 98-107: centeredSlides and loop, true unless the trimmed,
\* lower-cased value is one of the four words
booleanOf(attr) ==
    IF attr.present
    THEN LET val == toLowerCase(trim(attr.value))
         IN  IF isFalseWord(val) THEN FALSE ELSE TRUE
    ELSE TRUE

NoOptions == [status |-> "none"]

\* the attribute values tried for data-space-between
SpaceBetweenAttrs ==
    {Absent, Attr(<<>>), Attr(<<"2", "4">>), Attr(<<"a", "b", "c">>),
     Attr(<<"1", "2", "p", "x">>), Attr(<<" ", "8">>), Attr(<<"-", "4">>)}

\* the attribute values tried for data-slides-per-view
SlidesPerViewAttrs ==
    {Absent, Attr(<<>>), Attr(<<"a", "u", "t", "o">>), Attr(<<" ", "A", "U", "T", "O", " ">>),
     Attr(<<"2">>), Attr(<<"1", ".", "5">>), Attr(<<"a", "b", "c">>)}

\* the attribute values tried for data-centered-slides and data-loop
BooleanAttrs ==
    {Absent, Attr(<<>>), Attr(<<" ">>), Attr(<<"f", "a", "l", "s", "e">>),
     Attr(<<"F", "A", "L", "S", "E">>), Attr(<<" ", "f", "a", "l", "s", "e", " ">>),
     Attr(<<"0">>), Attr(<<"n", "o">>), Attr(<<"O", "f", "f">>), Attr(<<"t", "r", "u", "e">>),
     Attr(<<"1">>), Attr(<<"y", "e", "s">>), Attr(<<"o", "n">>), Attr(<<"m", "a", "y", "b", "e">>)}

\* initSliders for one .swiper: the options of new Swiper taken from its wrapper
InitSliderOptions ==
    /\ swiperOptions = NoOptions
    /\ swiperOptions' =
          [status |-> "done",
           loop |-> booleanOf(wrapperAttrs.loop),
           spaceBetween |-> spaceBetweenOf(wrapperAttrs.spaceBetween),
           slidesPerView |-> slidesPerViewOf(wrapperAttrs.slidesPerView),
           centeredSlides |-> booleanOf(wrapperAttrs.centeredSlides)]
    /\ UNCHANGED wrapperAttrs
    /\ UNCHANGED notOptionVars

\* a page without slider whose options are looked at
OptionIdle ==
    /\ wrapperAttrs = [spaceBetween |-> Absent, slidesPerView |-> Absent,
                       centeredSlides |-> Absent, loop |-> Absent]
    /\ swiperOptions = NoOptions

\* a slider whose wrapper has any of the attribute values
InitOption ==
    /\ wrapperAttrs \in [spaceBetween : SpaceBetweenAttrs, slidesPerView : SlidesPerViewAttrs,
                         centeredSlides : BooleanAttrs, loop : BooleanAttrs]
    /\ swiperOptions = NoOptions


(***************************************************************************)
(* content-modal.ts: ContentModal                                           *)
(***************************************************************************)
\* container.clientWidth, the width of one slide
ModalWidth == 10

\* const tolerance = 5
tolerance == 5

ModalTypes == {"stories", "default"}

ModalShapes == [type : ModalTypes, container : BOOLEAN, slides : 1..MaxModalSlides]

\* container.scrollWidth - container.clientWidth
maxScrollOf(m) == ModalWidth * (modalShape[m].slides - 1)

\* the positions a container can be scrolled to by hand: the slide positions and a few
\* pixels off them
ScrollPositions(m) ==
    {p \in 0..maxScrollOf(m) : p % ModalWidth \in {0, 3, ModalWidth - 3}}

\* container.scrollTo({ left }): the browser keeps the position within 0..maxScroll
scrollTo(m, left) == Max(0, Min(left, maxScrollOf(m)))

NoScroll == [modal |-> 0, direction |-> "none", outcome |-> "none"]

\* the value of this.isStorySlider after init() went through modals 1..m
IsStorySliderAfter(m) ==
    IF m = 0 THEN FALSE ELSE modalShape[m].type = "stories"

\* this.isStorySlider as handleScroll reads it for a click in modal m: the one field
\* of the instance
IsStorySliderOf(m) == isStorySlider

\* new ContentModal(): init() sets the field for every modal in turn and initSlider
\* attaches the listeners of the modals that have a scroll container
NewContentModal ==
    /\ ~contentModalInit
    /\ contentModalInit' = TRUE
    /\ isStorySlider' = IsStorySliderAfter(NumModals)
    /\ modalBound' = [m \in Modals |-> modalShape[m].container]
    /\ UNCHANGED <<modalShape, scrollLeft, lastScroll>>
    /\ UNCHANGED notModalVars

AtBoundary_Always(m, direction) == TRUE

\* the container of modal m is at the boundary a request in the direction runs into:
\* currentScroll >= maxScroll - tolerance, currentScroll <= tolerance
AtBoundary(m, direction) ==
    IF direction = "next" THEN scrollLeft[m] >= maxScrollOf(m) - tolerance
    ELSE scrollLeft[m] <= tolerance

\* handleScroll(container, direction) for the container of modal m
HandleScroll(m, direction) ==
    LET maxScroll == maxScrollOf(m)
        currentScroll == scrollLeft[m]
        atBoundary == AtBoundary(m, direction)
        targetScroll ==
            IF direction = "next"
            THEN IF atBoundary THEN 0 ELSE currentScroll + ModalWidth
            ELSE IF direction = "prev"
            THEN IF atBoundary THEN maxScroll ELSE currentScroll - ModalWidth
            ELSE IF direction = "first" THEN 0 ELSE maxScroll
    IN  IF direction \in {"next", "prev"} /\ atBoundary /\ IsStorySliderOf(m)
        THEN /\ lastScroll' = [modal |-> m, direction |-> direction, outcome |-> "storyHandoff"]
             /\ UNCHANGED scrollLeft
        ELSE /\ lastScroll' = [modal |-> m, direction |-> direction, outcome |-> "scrollTo"]
             /\ scrollLeft' = [scrollLeft EXCEPT ![m] = scrollTo(m, targetScroll)]

\* click on the prev or next button of modal m
ModalNavClick(m, direction) ==
    /\ modalBound[m]
    /\ direction \in {"prev", "next"}
    /\ HandleScroll(m, direction)
    /\ UNCHANGED <<modalShape, contentModalInit, isStorySlider, modalBound>>
    /\ UNCHANGED notModalVars

\* the sliderJump listener of modal m
SliderJump(m, direction) ==
    /\ modalBound[m]
    /\ direction \in {"first", "last", "prev", "next"}
    /\ HandleScroll(m, direction)
    /\ UNCHANGED <<modalShape, contentModalInit, isStorySlider, modalBound>>
    /\ UNCHANGED notModalVars

\* the user scrolls the container of modal m by hand
UserScroll(m, p) ==
    /\ modalShape[m].container
    /\ p \in ScrollPositions(m)
    /\ p # scrollLeft[m]
    /\ scrollLeft' = [scrollLeft EXCEPT ![m] = p]
    /\ UNCHANGED <<modalShape, contentModalInit, isStorySlider, modalBound, lastScroll>>
    /\ UNCHANGED notModalVars

\* a page without content modals
ModalIdle ==
    /\ modalShape = [m \in Modals |-> [type |-> "default", container |-> FALSE, slides |-> 1]]
    /\ contentModalInit = FALSE
    /\ isStorySlider = FALSE
    /\ modalBound = [m \in Modals |-> FALSE]
    /\ scrollLeft = [m \in Modals |-> 0]
    /\ lastScroll = NoScroll

\* a page with NumModals content modals of any type
InitModal ==
    /\ modalShape \in [Modals -> ModalShapes]
    /\ contentModalInit = FALSE
    /\ isStorySlider = FALSE
    /\ modalBound = [m \in Modals |-> FALSE]
    /\ scrollLeft = [m \in Modals |-> 0]
    /\ lastScroll = NoScroll

\* the first two content modals are of any shape, the further ones lack a container
InitModalPair ==
    /\ InitModal
    /\ \A m \in Modals : m > 2 => modalShape[m] = [type |-> "default", container |-> FALSE, slides |-> 1]


(***************************************************************************)
(* inline-vimeo-player.ts: InlineVimeoPlayer, lazy initialisation and       *)
(* destroy                                                                  *)
(***************************************************************************)
\* the value videoInstances holds for an initialised wrap: { player, pauseVideo }
InstanceValue == "playerAndPauseVideo"

\* the value has a destroy method: a Vimeo player has one, the object stored for a
\* wrap has the fields player and pauseVideo only
HasDestroy(v) == v = "player"

\* the browser queues an entry for an observed wrap when its intersection state changes
\* (the first entry after observe() is always queued)
QueueEntry(w, intersecting) ==
    /\ w \in observing
    /\ Len(queuedEntries) < MaxEntries
    /\ prevIntersecting[w] # (IF intersecting THEN "yes" ELSE "no")
    /\ queuedEntries' = Append(queuedEntries, [target |-> w, isIntersecting |-> intersecting])
    /\ prevIntersecting' = [prevIntersecting EXCEPT ![w] = IF intersecting THEN "yes" ELSE "no"]
    /\ UNCHANGED <<observing, wrapHasUrl, initRuns, playersConstructed, playersDestroyed,
                   listenerSets, videoInstances, observerDestroyed>>
    /\ UNCHANGED notObsVars

\* initializeVideo(wrap) up to its first await: unobserve, return when the wrap is in
\* videoInstances or has no URL, else await fetchThumbnail
InitializeVideo(st, w) ==
    IF w \in videoInstances \/ ~wrapHasUrl[w]
    THEN [obs |-> st.obs \ {w}, runs |-> st.runs]
    ELSE [obs |-> st.obs \ {w}, runs |-> Append(st.runs, [wrap |-> w, pc |-> "fetchThumbnail"])]

\* entries.forEach((entry) => { if (entry.isIntersecting) this.initializeVideo(...) })
RECURSIVE ForEachEntry(_, _)
ForEachEntry(entries, st) ==
    IF entries = <<>> THEN st
    ELSE ForEachEntry(Tail(entries),
                      IF Head(entries).isIntersecting
                      THEN InitializeVideo(st, Head(entries).target)
                      ELSE st)

\* the observer callback with the entries queued since the last one
ObserverCallback ==
    /\ queuedEntries # <<>>
    /\ LET st == ForEachEntry(queuedEntries, [obs |-> observing, runs |-> initRuns])
       IN  /\ observing' = st.obs
           /\ initRuns' = st.runs
    /\ queuedEntries' = <<>>
    /\ UNCHANGED <<prevIntersecting, wrapHasUrl, playersConstructed, playersDestroyed,
                   listenerSets, videoInstances, observerDestroyed>>
    /\ UNCHANGED notObsVars

\* initializeVideo resumed: after the thumbnail fetch it constructs the player and
\* awaits ready(), setCurrentTime(1) and pause(); after those it stores the instance and
\* attaches the listeners
InitializeVideoResume(i) ==
    /\ i \in 1..Len(initRuns)
    /\ LET w == initRuns[i].wrap
       IN  \/ /\ initRuns[i].pc = "fetchThumbnail"
              /\ playersConstructed' = [playersConstructed EXCEPT ![w] = @ + 1]
              /\ initRuns' = [initRuns EXCEPT ![i].pc = "playerCalls"]
              /\ UNCHANGED <<videoInstances, listenerSets>>
           \/ /\ initRuns[i].pc = "playerCalls"
              /\ videoInstances' = videoInstances \cup {w}
              /\ listenerSets' = [listenerSets EXCEPT ![w] = @ + 1]
              /\ initRuns' = [initRuns EXCEPT ![i].pc = "done"]
              /\ UNCHANGED playersConstructed
    /\ UNCHANGED <<observing, prevIntersecting, queuedEntries, wrapHasUrl, playersDestroyed,
                   observerDestroyed>>
    /\ UNCHANGED notObsVars

\* one of the awaited player calls rejects: the catch of initializeVideo logs
InitializeVideoRejected(i) ==
    /\ i \in 1..Len(initRuns)
    /\ initRuns[i].pc = "playerCalls"
    /\ initRuns' = [initRuns EXCEPT ![i].pc = "failed"]
    /\ UNCHANGED <<observing, prevIntersecting, queuedEntries, wrapHasUrl, playersConstructed,
                   playersDestroyed, listenerSets, videoInstances, observerDestroyed>>
    /\ UNCHANGED notObsVars

\* destroy(): disconnect the observer, call destroy() on every value of videoInstances
\* inside a try, clear the map
Destroy ==
    /\ ~observerDestroyed
    /\ observerDestroyed' = TRUE
    /\ observing' = {}
    /\ queuedEntries' = <<>>
    /\ playersDestroyed' = [w \in Wraps |->
                               IF w \in videoInstances /\ HasDestroy(InstanceValue)
                               THEN playersDestroyed[w] + 1
                               ELSE playersDestroyed[w]]
    /\ videoInstances' = {}
    /\ UNCHANGED <<prevIntersecting, wrapHasUrl, initRuns, playersConstructed, listenerSets>>
    /\ UNCHANGED notObsVars

\* a page without video wraps
ObsIdle ==
    /\ observing = {}
    /\ prevIntersecting = [w \in Wraps |-> "unknown"]
    /\ queuedEntries = <<>>
    /\ wrapHasUrl = [w \in Wraps |-> FALSE]
    /\ initRuns = <<>>
    /\ playersConstructed = [w \in Wraps |-> 0]
    /\ playersDestroyed = [w \in Wraps |-> 0]
    /\ listenerSets = [w \in Wraps |-> 0]
    /\ videoInstances = {}
    /\ observerDestroyed = FALSE

\* new InlineVimeoPlayer(): initializeAll observed every wrap
InitObs ==
    /\ observing = Wraps
    /\ prevIntersecting = [w \in Wraps |-> "unknown"]
    /\ queuedEntries = <<>>
    /\ wrapHasUrl \in [Wraps -> BOOLEAN]
    /\ initRuns = <<>>
    /\ playersConstructed = [w \in Wraps |-> 0]
    /\ playersDestroyed = [w \in Wraps |-> 0]
    /\ listenerSets = [w \in Wraps |-> 0]
    /\ videoInstances = {}
    /\ observerDestroyed = FALSE


(***************************************************************************)
(* vimeo-player.ts: VimeoPlayers, one container                             *)
(***************************************************************************)
\* a promise chain suspended on a player call: the handler that started it and the call
Chain(kind, call) == [kind |-> kind, call |-> call]

NoToggle == [active |-> FALSE, wasPaused |-> FALSE, seeked |-> FALSE]

\* the chains started by mouseenter, mouseleave and the timeupdate rewind
HoverKinds == {"mouseenter", "mouseleave", "timeupdate"}

\* the call a chain makes after the call c.call resolved, "done" when the chain ends;
\* getPaused resolves with the player's state at that time
NextCall(c) ==
    CASE c.kind = "init" ->
           (CASE c.call = "ready" -> "setMuted"
              [] c.call = "setMuted" -> "setVolume"
              [] c.call = "setVolume" -> "setCurrentTime"
              [] c.call = "setCurrentTime" -> "pause"
              [] OTHER -> "done")
      [] c.kind = "mouseenter" ->
           (CASE c.call = "setMuted" -> "setVolume"
              [] c.call = "setVolume" -> "setCurrentTime"
              [] c.call = "setCurrentTime" -> "play"
              [] OTHER -> "done")
      [] c.kind = "mouseleave" ->
           (CASE c.call = "pause" -> "setCurrentTime"
              [] OTHER -> "done")
      [] c.kind = "click" ->
           (CASE c.call = "setMuted" -> "setVolume"
              [] c.call = "setVolume" -> "getPaused"
              [] c.call = "getPaused" -> IF vpPaused THEN "setCurrentTime" ELSE "play"
              [] c.call = "setCurrentTime" -> "play"
              [] OTHER -> "done")
      [] c.kind = "button" ->
           (CASE c.call = "getPaused" -> IF vpPaused THEN "play" ELSE "pause"
              [] OTHER -> "done")
      [] OTHER -> "done"

\* the player executes the call of chain c
PlayerExecutes(c) ==
    /\ vpMuted' = IF c.call = "setMuted" THEN c.kind # "click" ELSE vpMuted
    /\ vpVolume' = IF c.call = "setVolume" THEN (IF c.kind = "click" THEN 1 ELSE 0) ELSE vpVolume
    /\ vpPosition' = IF c.call = "setCurrentTime"
                     THEN (IF c.kind = "click" THEN "fullStart" ELSE "snippetStart")
                     ELSE vpPosition
    /\ vpPaused' = IF c.call = "play" THEN FALSE
                   ELSE IF c.call = "pause" THEN TRUE
                   ELSE vpPaused

\* the closure variables after chain c made its call and went on to next: the finally
\* of mouseleave and of the rewind
ChainEnds(c, next) ==
    /\ isSnippetActive' = IF c.kind = "mouseleave" /\ next = "done" THEN FALSE ELSE isSnippetActive
    /\ isRewindingSnippet' = IF c.kind = "timeupdate" /\ next = "done" THEN FALSE
                             ELSE isRewindingSnippet

\* the player answers the oldest pending call: it executes it and the chain goes on
CallResolved ==
    /\ chains # <<>>
    /\ LET c == Head(chains)
           next == NextCall(c)
       IN  /\ PlayerExecutes(c)
           /\ ChainEnds(c, next)
           /\ chains' = IF next = "done" THEN Tail(chains)
                        ELSE Append(Tail(chains), Chain(c.kind, next))
           /\ toggle' = IF c.call = "setCurrentTime" THEN [toggle EXCEPT !.seeked = toggle.active]
                        ELSE toggle
    /\ UNCHANGED <<hasPlayPauseButton, isFullMode>>
    /\ UNCHANGED notVpVars

\* the oldest pending call rejects: the chain skips to its catch
CallRejected ==
    /\ chains # <<>>
    /\ ChainEnds(Head(chains), "done")
    /\ chains' = Tail(chains)
    /\ toggle' = NoToggle
    /\ UNCHANGED <<hasPlayPauseButton, isFullMode, vpPaused, vpMuted, vpVolume, vpPosition>>
    /\ UNCHANGED notVpVars

\* playback moves the position on
Playback ==
    /\ ~vpPaused
    /\ vpPosition # "played"
    /\ vpPosition' = "played"
    /\ UNCHANGED <<hasPlayPauseButton, isFullMode, isSnippetActive, isRewindingSnippet, vpPaused,
                   vpMuted, vpVolume, chains, toggle>>
    /\ UNCHANGED notVpVars

\* player.on('timeupdate') at the end of the snippet
TimeUpdate ==
    /\ ~vpPaused
    /\ vpPosition = "played"
    /\ isSnippetActive /\ ~isFullMode
    /\ ~isRewindingSnippet
    /\ Len(chains) < MaxChains
    /\ isRewindingSnippet' = TRUE
    /\ chains' = Append(chains, Chain("timeupdate", "setCurrentTime"))
    /\ toggle' = NoToggle
    /\ UNCHANGED <<hasPlayPauseButton, isFullMode, isSnippetActive, vpPaused, vpMuted, vpVolume,
                   vpPosition>>
    /\ UNCHANGED notVpVars

\* mouseenter listener of the container
VpMouseEnter ==
    /\ ~isFullMode
    /\ Len(chains) < MaxChains
    /\ isSnippetActive' = TRUE
    /\ chains' = Append(chains, Chain("mouseenter", "setMuted"))
    /\ toggle' = NoToggle
    /\ UNCHANGED <<hasPlayPauseButton, isFullMode, isRewindingSnippet, vpPaused, vpMuted, vpVolume,
                   vpPosition>>
    /\ UNCHANGED notVpVars

\* mouseleave listener of the container
VpMouseLeave ==
    /\ ~isFullMode
    /\ isSnippetActive
    /\ Len(chains) < MaxChains
    /\ chains' = Append(chains, Chain("mouseleave", "pause"))
    /\ toggle' = NoToggle
    /\ UNCHANGED <<hasPlayPauseButton, isFullMode, isSnippetActive, isRewindingSnippet, vpPaused,
                   vpMuted, vpVolume, vpPosition>>
    /\ UNCHANGED notVpVars

\* click listener of the container, for a click outside the buttons
ContainerClick ==
    /\ Len(chains) < MaxChains
    /\ isFullMode' = TRUE
    /\ chains' = Append(chains, Chain("click", "setMuted"))
    /\ toggle' = NoToggle
    /\ UNCHANGED <<hasPlayPauseButton, isSnippetActive, isRewindingSnippet, vpPaused, vpMuted,
                   vpVolume, vpPosition>>
    /\ UNCHANGED notVpVars

\* a click on the play/pause button inside the container: the listener of the button
\* runs, then the event bubbles to the click listener of the container
PlayPauseClick ==
    /\ hasPlayPauseButton
    /\ Len(chains) + 2 <= MaxChains
    /\ isFullMode' = TRUE
    /\ chains' = chains \o <<Chain("button", "getPaused"), Chain("click", "setMuted")>>
    /\ toggle' = IF chains = <<>>
                 THEN [active |-> TRUE, wasPaused |-> vpPaused, seeked |-> FALSE]
                 ELSE NoToggle
    /\ UNCHANGED <<hasPlayPauseButton, isSnippetActive, isRewindingSnippet, vpPaused, vpMuted,
                   vpVolume, vpPosition>>
    /\ UNCHANGED notVpVars

\* a page without Vimeo containers
VpIdle ==
    /\ hasPlayPauseButton = FALSE
    /\ isFullMode = FALSE
    /\ isSnippetActive = FALSE
    /\ isRewindingSnippet = FALSE
    /\ vpPaused = TRUE
    /\ vpMuted = TRUE
    /\ vpVolume = 0
    /\ vpPosition = "snippetStart"
    /\ chains = <<>>
    /\ toggle = NoToggle

\* initContainer has run for a container: the listeners are attached and the initial
\* setup chain awaits player.ready()
InitVp ==
    /\ hasPlayPauseButton \in BOOLEAN
    /\ isFullMode = FALSE
    /\ isSnippetActive = FALSE
    /\ isRewindingSnippet = FALSE
    /\ vpPaused \in BOOLEAN
    /\ vpMuted = TRUE
    /\ vpVolume \in {0, 1}
    /\ vpPosition = "played"
    /\ chains = <<Chain("init", "ready")>>
    /\ toggle = NoToggle


(***************************************************************************)
(* switching-tabs.ts: AutoRotatingTabs, the open and close animations of    *)
(* one component                                                            *)
(***************************************************************************)
\* the tabs closeOtherTabs animates when index becomes current: index !== current && tab.open
ClosedByOthers(index) == {t \in PanelTabs : t < panelCount /\ t # index /\ panelOpen[t]}

\* openTabAtCurrentIndex() with this.currentTabIndex = index: el.open = true, an
\* opening tween on its content, and closeOtherTabs(); a tween made with
\* overwrite: true kills the tweens pending on the same content, callbacks included
OpenTabAtCurrentIndex(index) ==
    /\ panelIndex' = index
    /\ panelOpen' = [panelOpen EXCEPT ![index] = TRUE]
    /\ panelClosing' = [t \in PanelTabs |-> panelClosing[t] \/ t \in ClosedByOthers(index)]
    /\ openTween' = [t \in PanelTabs |->
                        IF t = index THEN TRUE
                        ELSE IF overwrite /\ t \in ClosedByOthers(index) THEN FALSE
                        ELSE openTween[t]]
    /\ closeTweens' = [t \in PanelTabs |->
                          IF t = index THEN (IF overwrite THEN 0 ELSE closeTweens[t])
                          ELSE IF t \in ClosedByOthers(index)
                          THEN (IF overwrite THEN 1 ELSE closeTweens[t] + 1)
                          ELSE closeTweens[t]]

\* the tweens openTabAtCurrentIndex would leave pending stay within the bound
TweensFit(index) == \A t \in ClosedByOthers(index) : overwrite \/ closeTweens[t] < MaxTweens

\* click on the <summary> of tab index
PanelClick(index) ==
    /\ index < panelCount
    /\ ~(index = panelIndex \/ panelOpen[index])
    /\ TweensFit(index)
    /\ OpenTabAtCurrentIndex(index)
    /\ UNCHANGED <<overwrite, panelCount>>
    /\ UNCHANGED notPanelVars

\* the interval callback: rotateToNext()
PanelRotate ==
    /\ panelCount > 0
    /\ TweensFit((panelIndex + 1) % panelCount)
    /\ OpenTabAtCurrentIndex((panelIndex + 1) % panelCount)
    /\ UNCHANGED <<overwrite, panelCount>>
    /\ UNCHANGED notPanelVars

\* onComplete of a closing tween of tab t: tab.open = false, is-closing removed
CloseTweenComplete(t) ==
    /\ closeTweens[t] > 0
    /\ closeTweens' = [closeTweens EXCEPT ![t] = @ - 1]
    /\ panelOpen' = [panelOpen EXCEPT ![t] = FALSE]
    /\ panelClosing' = [panelClosing EXCEPT ![t] = FALSE]
    /\ UNCHANGED <<overwrite, panelCount, panelIndex, openTween>>
    /\ UNCHANGED notPanelVars

\* onComplete of the opening tween of tab t: height auto
OpenTweenComplete(t) ==
    /\ openTween[t]
    /\ openTween' = [openTween EXCEPT ![t] = FALSE]
    /\ UNCHANGED <<overwrite, panelCount, panelIndex, panelOpen, panelClosing, closeTweens>>
    /\ UNCHANGED notPanelVars

\* a page without the component
PanelIdle ==
    /\ overwrite = TRUE
    /\ panelCount = 0
    /\ panelIndex = 0
    /\ panelOpen = [t \in PanelTabs |-> FALSE]
    /\ panelClosing = [t \in PanelTabs |-> FALSE]
    /\ closeTweens = [t \in PanelTabs |-> 0]
    /\ openTween = [t \in PanelTabs |-> FALSE]

\* a component of 1..MaxPanelTabs tabs after its constructor: init() has opened tab 0
\* and started closing the tabs the markup had open
InitPanel ==
    /\ overwrite \in BOOLEAN
    /\ panelCount \in 1..MaxPanelTabs
    /\ panelIndex = 0
    /\ panelOpen \in [PanelTabs -> BOOLEAN]
    /\ panelOpen[0]
    /\ \A t \in PanelTabs : t >= panelCount => ~panelOpen[t]
    /\ panelClosing = [t \in PanelTabs |-> t # 0 /\ panelOpen[t]]
    /\ closeTweens = [t \in PanelTabs |-> IF t # 0 /\ panelOpen[t] THEN 1 ELSE 0]
    /\ openTween = [t \in PanelTabs |-> t = 0]


(***************************************************************************)
(* Component scripts: top level and bootstrap                              *)
(***************************************************************************)
\* the library script has executed: it defines window.Swiper / window.Vimeo
Loaded(finalUrl) ==
    \E i \in 1..Len(scripts) : scripts[i].src = finalUrl /\ scripts[i].status = "loaded"

\* !!window.Vimeo?.Player
hasVimeo == Loaded(VimeoUrl)

\* the completion signal each video controller waits for
SignalOf(ctrl) == IF ctrl = "InlineVimeoPlayer" THEN "vimeo-sdk" ELSE "vimeo"

\* the callback a video component pushes on window.Webflow:
\* hasVimeo ? new Controller() : document.addEventListener(signal, ..., { once: true })
CallbackConstructs(ctrl) == hasVimeo

CallbackListener(ctrl) ==
    [type |-> <<"scriptLoaded:", SignalOf(ctrl)>>, ctrl |-> ctrl, once |-> TRUE]

RECURSIVE QueueListeners(_)
QueueListeners(q) ==
    IF q = <<>> THEN <<>> ELSE <<CallbackListener(Head(q))>> \o QueueListeners(Tail(q))

RECURSIVE CountIn(_, _)
CountIn(q, c) ==
    IF q = <<>> THEN 0 ELSE (IF Head(q) = c THEN 1 ELSE 0) + CountIn(Tail(q), c)

\* slider.ts top level: loadScript(swiper, { name: 'swiper' }) and a document listener
RunSliderScript ==
    /\ "Slider" \notin scriptsRun
    /\ scriptsRun' = scriptsRun \cup {"Slider"}
    /\ LoadScript(SwiperUrl, "swiper")
    /\ listeners' = Append(listeners,
                           [type |-> <<"scriptLoaded:", "swiper">>, ctrl |-> "Slider",
                            once |-> FALSE])
    /\ UNCHANGED <<scriptsEnv, hostname, relativePathBase, events, webflowReady, readyQueue,
                   constructed, preloads>>
    /\ UNCHANGED notLoaderVars

\* the GSAP slider script's top level: document.addEventListener('scriptLoaded', ...),
\* whose callback constructs a GSAPDragSlider for every component element; the script
\* itself loads nothing by name
RunGsapScript ==
    /\ "GSAPDragSlider" \notin scriptsRun
    /\ scriptsRun' = scriptsRun \cup {"GSAPDragSlider"}
    /\ listeners' = Append(listeners,
                           [type |-> <<"scriptLoaded">>, ctrl |-> "GSAPDragSlider",
                            once |-> FALSE])
    /\ UNCHANGED <<scriptsEnv, hostname, relativePathBase, scripts, calls, events,
                   webflowReady, readyQueue, constructed, preloads>>
    /\ UNCHANGED notLoaderVars

\* inline-vimeo-player.ts / vimeo-player.ts top level: loadScript(player.js, { name })
\* and window.Webflow.push(callback); the push runs the callback at once when the
\* ready signal has already fired
RunVideoScript(ctrl) ==
    /\ ctrl \in {"InlineVimeoPlayer", "VimeoPlayers"}
    /\ ctrl \notin scriptsRun
    /\ scriptsRun' = scriptsRun \cup {ctrl}
    /\ LoadScript(VimeoUrl, SignalOf(ctrl))
    /\ IF webflowReady
       THEN IF CallbackConstructs(ctrl)
            THEN /\ constructed' = [constructed EXCEPT ![ctrl] = @ + 1]
                 /\ UNCHANGED <<listeners, readyQueue>>
            ELSE /\ listeners' = Append(listeners, CallbackListener(ctrl))
                 /\ UNCHANGED <<constructed, readyQueue>>
       ELSE /\ readyQueue' = Append(readyQueue, ctrl)
            /\ UNCHANGED <<constructed, listeners>>
    /\ UNCHANGED <<scriptsEnv, hostname, relativePathBase, events, webflowReady, preloads>>
    /\ UNCHANGED notLoaderVars

\* the host-ready signal: every queued callback runs, in push order
WebflowReady ==
    /\ ~webflowReady
    /\ webflowReady' = TRUE
    /\ readyQueue' = <<>>
    /\ IF hasVimeo
       THEN /\ constructed' = [c \in Controllers |-> constructed[c] + CountIn(readyQueue, c)]
            /\ UNCHANGED listeners
       ELSE /\ listeners' = listeners \o QueueListeners(readyQueue)
            /\ UNCHANGED constructed
    /\ UNCHANGED <<scriptsEnv, hostname, relativePathBase, scripts, calls, events,
                   scriptsRun, preloads>>
    /\ UNCHANGED notLoaderVars

\* page code that requested a library before the component script ran
Preload(url) ==
    /\ preloads < MaxPreloads
    /\ preloads' = preloads + 1
    /\ LoadScript(url, NoName)
    /\ UNCHANGED <<scriptsEnv, hostname, relativePathBase, events, listeners, webflowReady,
                   readyQueue, scriptsRun, constructed>>
    /\ UNCHANGED notLoaderVars

(***************************************************************************)
(* inline-vimeo-player.ts: InlineVimeoPlayer                               *)
(* (interview-slider-video.ts: InterviewVideoPlayer has the same handlers) *)
(***************************************************************************)
\* a suspended async handler: which listener, on which wrap, the call it awaits (pc),
\* and for a click the holder it found committed (prev) and whether that holder's
\* pause has been acknowledged to it (prevAcked)
Handler(kind, wrap, pc, prev, prevAcked) ==
    [kind |-> kind, wrap |-> wrap, pc |-> pc, prev |-> prev, prevAcked |-> prevAcked]

RECURSIVE SumLen(_, _)
SumLen(f, S) ==
    IF S = {} THEN 0
    ELSE LET x == CHOOSE y \in S : TRUE IN Len(f[x]) + SumLen(f, S \ {x})

\* number of handlers suspended on a player call
InFlight == SumLen(pending, Wraps)

\* the handler makes a call on the player of wrap p and suspends
Issue(q, p, h) == [q EXCEPT ![p] = Append(@, h)]

\* the call at the head of the queue of player p is settled
Settled(q, p) == [q EXCEPT ![p] = Tail(@)]

\* the IntersectionObserver callback for an intersecting wrap: initializeVideo starts
\* (unobserve, videoInstances.has(wrap) is false, thumbnail fetch pending)
IntersectionCallback(w) ==
    /\ wrapInit[w] = "observed"
    /\ wrapInit' = [wrapInit EXCEPT ![w] = "initializing"]
    /\ UNCHANGED <<isClickPlaying, currentlyPlaying, playState, paused, pending>>
    /\ UNCHANGED notVimeoVars

\* initializeVideo completes: player ready, setCurrentTime(1), pause(), instance stored,
\* listeners attached with isClickPlaying = false
InitializeVideoDone(w) ==
    /\ wrapInit[w] = "initializing"
    /\ wrapInit' = [wrapInit EXCEPT ![w] = "ready"]
    /\ paused' = [paused EXCEPT ![w] = TRUE]
    /\ isClickPlaying' = [isClickPlaying EXCEPT ![w] = FALSE]
    /\ UNCHANGED <<currentlyPlaying, playState, pending>>
    /\ UNCHANGED notVimeoVars

\* initializeVideo aborts: no Vimeo API, or a player call throws into the catch
InitializeVideoFails(w) ==
    /\ wrapInit[w] = "initializing"
    /\ wrapInit' = [wrapInit EXCEPT ![w] = "failed"]
    /\ UNCHANGED <<isClickPlaying, currentlyPlaying, playState, paused, pending>>
    /\ UNCHANGED notVimeoVars

\* mouseenter listener up to its first await: if (isClickPlaying) return;
\* await player.setMuted(true)
MouseEnter(w) ==
    /\ wrapInit[w] = "ready"
    /\ InFlight < MaxHandlers
    /\ ~isClickPlaying[w]
    /\ pending' = Issue(pending, w, Handler("mouseenter", w, "setMuted", NULL, FALSE))
    /\ UNCHANGED <<wrapInit, isClickPlaying, currentlyPlaying, playState, paused>>
    /\ UNCHANGED notVimeoVars

\* mouseenter listener resumed by the acknowledgement of the call it awaits on player p
MouseEnterResume(p) ==
    /\ pending[p] # <<>>
    /\ Head(pending[p]).kind = "mouseenter"
    /\ LET h == Head(pending[p])
       IN  IF h.pc = "setMuted"
           THEN \* await player.play()
                /\ pending' = Issue(Settled(pending, p), p, [h EXCEPT !.pc = "play"])
                /\ UNCHANGED <<paused, playState>>
           ELSE /\ paused' = [paused EXCEPT ![p] = FALSE]
                /\ playState' = [playState EXCEPT ![p] = "hover"]
                /\ pending' = Settled(pending, p)
    /\ UNCHANGED <<wrapInit, isClickPlaying, currentlyPlaying>>
    /\ UNCHANGED notVimeoVars

\* mouseleave listener up to its first await: if (isClickPlaying || (await getPaused()))
MouseLeave(w) ==
    /\ wrapInit[w] = "ready"
    /\ InFlight < MaxHandlers
    /\ ~isClickPlaying[w]
    /\ pending' = Issue(pending, w, Handler("mouseleave", w, "getPaused", NULL, FALSE))
    /\ UNCHANGED <<wrapInit, isClickPlaying, currentlyPlaying, playState, paused>>
    /\ UNCHANGED notVimeoVars

\* mouseleave listener resumed: getPaused() answered, or pause() acknowledged
MouseLeaveResume(p) ==
    /\ pending[p] # <<>>
    /\ Head(pending[p]).kind = "mouseleave"
    /\ LET h == Head(pending[p])
       IN  IF h.pc = "getPaused"
           THEN IF paused[p]
                THEN /\ pending' = Settled(pending, p)
                     /\ UNCHANGED <<playState, paused>>
                ELSE /\ playState' = [playState EXCEPT ![p] = "none"]
                     /\ pending' = Issue(Settled(pending, p), p, [h EXCEPT !.pc = "pause"])
                     /\ UNCHANGED paused
           ELSE /\ paused' = [paused EXCEPT ![p] = TRUE]
                /\ pending' = Settled(pending, p)
                /\ UNCHANGED playState
    /\ UNCHANGED <<wrapInit, isClickPlaying, currentlyPlaying>>
    /\ UNCHANGED notVimeoVars

\* click listener up to its first await
Click(w) ==
    /\ wrapInit[w] = "ready"
    /\ InFlight < MaxHandlers
    /\ IF isClickPlaying[w]
       THEN \* await pauseVideo()
            /\ isClickPlaying' = [isClickPlaying EXCEPT ![w] = FALSE]
            /\ currentlyPlaying' = NULL
            /\ playState' = [playState EXCEPT ![w] = "paused"]
            /\ pending' = Issue(pending, w, Handler("click", w, "pauseSelf", NULL, FALSE))
       ELSE IF currentlyPlaying # NULL /\ currentlyPlaying # w /\ isClickPlaying[currentlyPlaying]
            THEN \* await instance.pauseVideo(): it runs up to its await player.pause()
                 LET a == currentlyPlaying
                 IN  /\ isClickPlaying' = [isClickPlaying EXCEPT ![a] = FALSE]
                     /\ currentlyPlaying' = NULL
                     /\ playState' = [playState EXCEPT ![a] = "paused"]
                     /\ pending' = Issue(pending, a,
                                         Handler("click", w, "pauseOther", a, FALSE))
            ELSE \* nothing to pause: start playing with audio
                 /\ isClickPlaying' = [isClickPlaying EXCEPT ![w] = TRUE]
                 /\ currentlyPlaying' = w
                 /\ playState' = [playState EXCEPT ![w] = "playing"]
                 /\ pending' = Issue(pending, w, Handler("click", w, "setMuted", NULL, FALSE))
    /\ UNCHANGED <<wrapInit, paused>>
    /\ UNCHANGED notVimeoVars

\* click listener resumed by the acknowledgement of the call it awaits on player p
ClickResume(p) ==
    /\ pending[p] # <<>>
    /\ Head(pending[p]).kind = "click"
    /\ LET h == Head(pending[p])
           w == Head(pending[p]).wrap
       IN  CASE h.pc = "pauseSelf" ->
                  /\ paused' = [paused EXCEPT ![p] = TRUE]
                  /\ pending' = Settled(pending, p)
                  /\ UNCHANGED <<isClickPlaying, currentlyPlaying, playState>>
             [] h.pc = "pauseOther" ->
                  \* the holder's pause is acknowledged: isClickPlaying = true, ...,
                  \* await player.setMuted(false)
                  /\ paused' = [paused EXCEPT ![p] = TRUE]
                  /\ isClickPlaying' = [isClickPlaying EXCEPT ![w] = TRUE]
                  /\ currentlyPlaying' = w
                  /\ playState' = [playState EXCEPT ![w] = "playing"]
                  /\ pending' = Issue(Settled(pending, p), w,
                                      [h EXCEPT !.pc = "setMuted", !.prevAcked = TRUE])
             [] h.pc = "setMuted" ->
                  \* await player.setVolume(1)
                  /\ pending' = Issue(Settled(pending, p), p, [h EXCEPT !.pc = "setVolume"])
                  /\ UNCHANGED <<isClickPlaying, currentlyPlaying, playState, paused>>
             [] h.pc = "setVolume" ->
                  \* await player.play()
                  /\ pending' = Issue(Settled(pending, p), p, [h EXCEPT !.pc = "play"])
                  /\ UNCHANGED <<isClickPlaying, currentlyPlaying, playState, paused>>
             [] h.pc = "play" ->
                  /\ paused' = [paused EXCEPT ![p] = FALSE]
                  /\ pending' = Settled(pending, p)
                  /\ UNCHANGED <<isClickPlaying, currentlyPlaying, playState>>
    /\ UNCHANGED wrapInit
    /\ UNCHANGED notVimeoVars

\* the awaited call on player p rejects: the hover handlers log; the click handler's
\* catch resets isClickPlaying and currentlyPlaying when the call was inside its try
HandlerRejected(p) ==
    /\ pending[p] # <<>>
    /\ pending' = Settled(pending, p)
    /\ LET h == Head(pending[p])
       IN  IF h.kind = "click" /\ h.pc \in {"setMuted", "setVolume", "play"}
           THEN /\ isClickPlaying' = [isClickPlaying EXCEPT ![h.wrap] = FALSE]
                /\ currentlyPlaying' = NULL
           ELSE UNCHANGED <<isClickPlaying, currentlyPlaying>>
    /\ UNCHANGED <<wrapInit, playState, paused>>
    /\ UNCHANGED notVimeoVars

\* player.on('ended')
Ended(w) ==
    /\ wrapInit[w] = "ready"
    /\ ~paused[w]
    /\ isClickPlaying' = [isClickPlaying EXCEPT ![w] = FALSE]
    /\ currentlyPlaying' = IF currentlyPlaying = w THEN NULL ELSE currentlyPlaying
    /\ playState' = [playState EXCEPT ![w] = "none"]
    /\ paused' = [paused EXCEPT ![w] = TRUE]
    /\ UNCHANGED <<wrapInit, pending>>
    /\ UNCHANGED notVimeoVars

InitVimeo ==
    /\ wrapInit = [w \in Wraps |-> "observed"]
    /\ isClickPlaying = [w \in Wraps |-> FALSE]
    /\ currentlyPlaying = NULL
    /\ playState = [w \in Wraps |-> "unset"]
    /\ paused = [w \in Wraps |-> TRUE]
    /\ pending = [w \in Wraps |-> <<>>]

(***************************************************************************)
(* story-slider.ts: StorySlider                                            *)
(***************************************************************************)
NoHandoff == [from |-> -1, dir |-> "none"]

\* the StorySlider classes of story-slider.ts: the one that listens for storyHandoff
\* on the dialogs, and the one that binds clicks on the inner slider's nav buttons
StoryVariants == {"storyHandoff", "boundaryClick"}

\* handoffToAdjacentStory of the storyHandoff class: the index of nextStoryItem
NextStoryItemPos(pos, dir, count) ==
    IF dir = "next"
    THEN IF pos = count - 1 THEN 0 ELSE pos + 1
    ELSE IF pos = 0 THEN count - 1 ELSE pos - 1

\* handoffToAdjacentStory of the boundaryClick class: the index of nextStoryItem
\* (dir is only logged)
NextStoryItemPosBoundaryClick(pos, dir, count) ==
    IF pos = count - 1 THEN 0 ELSE pos + 1

\* dialogEl.showModal(): opens the dialog; nothing happens when it is already open
\* as a modal
showModal(open, i) == [open EXCEPT ![i] = TRUE]

\* dialogEl.close()
close(open, i) == [open EXCEPT ![i] = FALSE]

JumpDirection_AlwaysFirst(dir) == "first"

\* the direction of the sliderJump event dispatched on the target dialog
JumpDirection(dir) == IF dir = "next" THEN "first" ELSE "last"

\* a boundary hand-off raised from the open dialog of item i: the storyHandoff listener
\* of the dialog, or the click on the inner slider's nav button at its first / last
\* slide; both call handoffToAdjacentStory(el, dir)
HandoffToAdjacentStory(i, dir) ==
    /\ i < storyCount
    /\ storyHasDialog[i]
    /\ dialogOpen[i]
    /\ lastHandoff' = [from |-> i, dir |-> dir]
    /\ IF storyVariant = "storyHandoff"
       THEN LET t == NextStoryItemPos(i, dir, storyCount)
            IN  IF ~storyHasDialog[t]
                THEN \* target slide has no dialog: warn and return
                     /\ handoffEvents' = <<>>
                     /\ UNCHANGED dialogOpen
                ELSE \* openDialog(targetDialog); closeDialog(currentDialog); sliderJump
                     /\ dialogOpen' = close(showModal(dialogOpen, t), i)
                     /\ handoffEvents' =
                            << [type |-> "dialogOpen", dialog |-> t],
                               [type |-> "dialogClose", dialog |-> i],
                               [type |-> "sliderJump", dialog |-> t,
                                direction |-> JumpDirection(dir)] >>
       ELSE LET t == NextStoryItemPosBoundaryClick(i, dir, storyCount)
            IN  IF ~storyHasDialog[t]
                THEN /\ handoffEvents' = <<>>
                     /\ UNCHANGED dialogOpen
                ELSE \* closeDialog(currentDialog); openDialog(targetDialog)
                     /\ dialogOpen' = showModal(close(dialogOpen, i), t)
                     /\ handoffEvents' =
                            << [type |-> "dialogClose", dialog |-> i],
                               [type |-> "dialogOpen", dialog |-> t] >>
    /\ UNCHANGED <<storyVariant, storyCount, storyHasDialog>>

\* the hand-off on a page whose dialogs hold no content modal sliders
StoryHandoff(i, dir) ==
    /\ HandoffToAdjacentStory(i, dir)
    /\ UNCHANGED notStoryVars

\* dialog.ts: an open trigger of the dialog of item i is clicked (no modal dialog is
\* open, or the trigger could not be reached)
OpenStory(i) ==
    /\ i < storyCount
    /\ storyHasDialog[i]
    /\ \A j \in Stories : ~dialogOpen[j]
    /\ dialogOpen' = showModal(dialogOpen, i)
    /\ UNCHANGED <<storyVariant, storyCount, storyHasDialog, lastHandoff, handoffEvents>>
    /\ UNCHANGED notStoryVars

\* dialog.ts: the open dialog of item i is closed (close trigger, backdrop, Esc)
CloseStory(i) ==
    /\ i < storyCount
    /\ dialogOpen[i]
    /\ dialogOpen' = close(dialogOpen, i)
    /\ UNCHANGED <<storyVariant, storyCount, storyHasDialog, lastHandoff, handoffEvents>>
    /\ UNCHANGED notStoryVars

\* a stories section with 1..MaxStories items, each with or without a dialog
InitStory ==
    /\ storyVariant \in StoryVariants
    /\ storyCount \in 1..MaxStories
    /\ storyHasDialog \in [Stories -> BOOLEAN]
    /\ \A i \in Stories : i >= storyCount => ~storyHasDialog[i]
    /\ dialogOpen = [i \in Stories |-> FALSE]
    /\ lastHandoff = NoHandoff
    /\ handoffEvents = <<>>

\* a page without a stories section
StoryIdle ==
    /\ storyVariant = "storyHandoff"
    /\ storyCount = 0
    /\ storyHasDialog = [i \in Stories |-> FALSE]
    /\ dialogOpen = [i \in Stories |-> FALSE]
    /\ lastHandoff = NoHandoff
    /\ handoffEvents = <<>>

(***************************************************************************)
(* slider.ts: Slider.initSliders over a document tree                      *)
(***************************************************************************)
\* what an element is to the selectors of Slider: [data-slider-el="component"],
\* .swiper, [data-slider-el="nav-prev"], [data-slider-el="nav-next"],
\* [data-slider-el="pagination"] / .swiper-pagination, or none of them
ElementKinds == {"component", "swiper", "nav-prev", "nav-next", "pagination", "div"}

\* the Slider of slider.ts takes swiperComponent.querySelector('.swiper'); the Slider
\* of the other revision filters the .swiper elements by closest(COMPONENT_SELECTOR)
SliderVariants == {"querySelector", "ownedSwiperEls"}

RECURSIVE AncestorsOrSelf(_, _)
AncestorsOrSelf(parent, n) ==
    IF n = NULL THEN {} ELSE {n} \cup AncestorsOrSelf(parent, parent[n])

\* parent is a tree whose numbering is the document (pre-)order
IsDocumentOrder(parent) ==
    \A n \in Nodes :
        /\ parent[n] < n
        /\ n > 1 => (parent[n] = NULL \/ parent[n] \in AncestorsOrSelf(parent, n - 1))

\* root.querySelectorAll(selector): the descendants of root that match
querySelectorAll(root, kind) ==
    {n \in Nodes : domKind[n] = kind /\ root \in AncestorsOrSelf(domParent, domParent[n])}

\* el.closest(selector): the nearest of el and its ancestors that matches
RECURSIVE closest(_, _)
closest(el, kind) ==
    IF el = NULL THEN NULL
    ELSE IF domKind[el] = kind THEN el
    ELSE closest(domParent[el], kind)

\* the first element of a match list in document order, null when there is none
First(S) == IF S = {} THEN NULL ELSE CHOOSE n \in S : \A m \in S : n <= m

\* Array.from(swiperComponent.querySelectorAll(sel)).find(
\*     (el) => el.closest(COMPONENT_SELECTOR) === swiperComponent) || null
ScopedFind(swiperComponent, kind) ==
    First({el \in querySelectorAll(swiperComponent, kind) :
              closest(el, "component") = swiperComponent})

\* the .swiper element initSliders hands to new Swiper for a component
SwiperElOf(swiperComponent) ==
    IF sliderVariant = "querySelector"
    THEN First(querySelectorAll(swiperComponent, "swiper"))
    ELSE ScopedFind(swiperComponent, "swiper")

\* the Swiper instance initSliders creates for a component
SwiperOf(swiperComponent) ==
    LET swiperEl == SwiperElOf(swiperComponent)
        navPrevButtonEl == ScopedFind(swiperComponent, "nav-prev")
        navNextButtonEl == ScopedFind(swiperComponent, "nav-next")
        hasNav == navPrevButtonEl # NULL /\ navNextButtonEl # NULL
    IN  [component |-> swiperComponent,
         el |-> swiperEl,
         prevEl |-> IF hasNav THEN navPrevButtonEl ELSE NULL,
         nextEl |-> IF hasNav THEN navNextButtonEl ELSE NULL,
         paginationEl |-> ScopedFind(swiperComponent, "pagination"),
         nested |-> closest(domParent[swiperEl], "swiper") # NULL]

\* this.swiperComponents.forEach(...) from component n on: a component without a
\* .swiper element logs an error and returns, the others get a Swiper
RECURSIVE InitSlidersFrom(_)
InitSlidersFrom(n) ==
    IF n > MaxNodes THEN <<>>
    ELSE IF domKind[n] = "component" /\ SwiperElOf(n) # NULL
         THEN <<SwiperOf(n)>> \o InitSlidersFrom(n + 1)
         ELSE InitSlidersFrom(n + 1)

\* new Slider(): querySelectorAll(COMPONENT_SELECTOR) and initSliders()
NewSlider ==
    /\ ~sliderConstructed
    /\ sliderConstructed' = TRUE
    /\ swipers' = InitSlidersFrom(1)
    /\ UNCHANGED <<sliderVariant, domParent, domKind>>
    /\ UNCHANGED notSliderVars

\* a page with MaxNodes elements in any tree of any kinds
InitSlider ==
    /\ sliderVariant \in SliderVariants
    /\ domParent \in {p \in [Nodes -> 0..(MaxNodes - 1)] : IsDocumentOrder(p)}
    /\ domKind \in [Nodes -> ElementKinds]
    /\ sliderConstructed = FALSE
    /\ swipers = <<>>

\* a page without slider components
SliderIdle ==
    /\ sliderVariant = "querySelector"
    /\ domParent = [n \in Nodes |-> NULL]
    /\ domKind = [n \in Nodes |-> "div"]
    /\ sliderConstructed = FALSE
    /\ swipers = <<>>

(***************************************************************************)
(* switching-tabs.ts: AutoRotatingTabs and initAutoRotatingTabs            *)
(* (slider.ts holds the revision of the class without AbortController)     *)
(***************************************************************************)
TabsVariants == {"abortController", "noAbort"}

\* what a <details> of a component contains: <summary> and the div after it, no
\* <summary> (then 'summary + div' matches nothing either), or no div after it
TabKinds == {"ok", "noSummary", "noContent"}

TabShapes == UNION {[1..n -> TabKinds] : n \in 0..MaxTabs}

\* new AutoRotatingTabs(component): "empty" when there are no <details> (warn and
\* return); "threw" when setupEventListeners meets a <details> without <summary>
\* (toggle is null) or openTabAtCurrentIndex finds no content div in the first tab
\* (content is null); "ready" otherwise
Constructed(shape) ==
    IF Len(shape) = 0 THEN "empty"
    ELSE IF \E t \in 1..Len(shape) : shape[t] = "noSummary" THEN "threw"
    ELSE IF shape[1] = "noContent" THEN "threw"
    ELSE "ready"

\* tabsComponents.forEach((component) => new AutoRotatingTabs(component)) from
\* component c on: the statuses it leaves, given whether an earlier one threw
RECURSIVE ForEachTabs(_, _, _)
ForEachTabs(c, threw, st) ==
    IF c > NumTabComponents \/ threw THEN st
    ELSE LET r == Constructed(tabShape[c])
         IN  ForEachTabs(c + 1, r = "threw", [st EXCEPT ![c] = r])

\* initAutoRotatingTabs(), the Webflow.push callback
InitAutoRotatingTabs ==
    /\ tabsInit = "none"
    /\ LET st == ForEachTabs(1, FALSE, tabStatus)
       IN  /\ tabStatus' = st
           /\ tabsInit' = IF \E c \in TabComponents : st[c] = "threw" THEN "threw" ELSE "done"
           /\ listening' = [c \in TabComponents |-> st[c] = "ready"]
           /\ observer' = [c \in TabComponents |->
                              IF st[c] = "ready" /\ mediaMatches THEN "observing" ELSE "none"]
    /\ UNCHANGED <<tabsVariant, tabShape, mediaMatches, currentTabIndex, intervalId, timers,
                   isInView>>
    /\ UNCHANGED notTabsVars

ClearedBeforeStart_Keeps(c) == timers[c]

StartAutoRotation_AnyView(c, inView) ==
    IF ~mediaMatches
    THEN <<intervalId[c], timers[c]>>
    ELSE LET id == CHOOSE i \in 1..MaxTimers : i \notin (timers[c] \ {intervalId[c]})
         IN  <<id, (timers[c] \ {intervalId[c]}) \cup {id}>>

\* startAutoRotation calls pauseAutoRotation() first: clearInterval(this.intervalId)
ClearedBeforeStart(c) == timers[c] \ {intervalId[c]}

\* the id window.setInterval returns: one that no live interval has
FreshId(live) == CHOOSE i \in 1..MaxTimers : i \notin live /\ \A j \in (1..MaxTimers) \ live : i <= j

\* a free interval id remains after the current interval is cleared
CanStart(c) == (1..MaxTimers) \ ClearedBeforeStart(c) # {}

\* startAutoRotation(): <<this.intervalId, live intervals>> after it, inView being
\* this.isInView at the call
StartAutoRotation(c, inView) ==
    IF ~mediaMatches \/ ~inView
    THEN <<intervalId[c], timers[c]>>
    ELSE LET live == ClearedBeforeStart(c)
             id == FreshId(live)
         IN  <<id, live \cup {id}>>

\* pauseAutoRotation(): clearInterval(this.intervalId); this.intervalId = null
PauseAutoRotation(c) == <<NULL, timers[c] \ {intervalId[c]}>>

\* openTabAtCurrentIndex() for the tab at index: el.open = true, startAutoRotation()
\* (a missing content div throws only after that)
OpenTab(c, index) ==
    LET r == StartAutoRotation(c, isInView[c])
    IN  /\ currentTabIndex' = [currentTabIndex EXCEPT ![c] = index]
        /\ intervalId' = [intervalId EXCEPT ![c] = r[1]]
        /\ timers' = [timers EXCEPT ![c] = r[2]]

\* click on the <summary> of tab index (0-based); the tabs other than the current
\* one are closed
TabClick(c, index) ==
    /\ listening[c]
    /\ index < Len(tabShape[c])
    /\ index # currentTabIndex[c]
    /\ CanStart(c)
    /\ OpenTab(c, index)
    /\ UNCHANGED <<tabsVariant, tabShape, tabsInit, tabStatus, mediaMatches, isInView,
                   observer, listening>>
    /\ UNCHANGED notTabsVars

\* the callback of a live interval: rotateToNext()
RotateToNext(c, id) ==
    /\ id \in timers[c]
    /\ CanStart(c)
    /\ OpenTab(c, (currentTabIndex[c] + 1) % Len(tabShape[c]))
    /\ UNCHANGED <<tabsVariant, tabShape, tabsInit, tabStatus, mediaMatches, isInView,
                   observer, listening>>
    /\ UNCHANGED notTabsVars

\* the IntersectionObserver callback with an entry for the component
TabsIntersection(c, isIntersecting) ==
    /\ observer[c] = "observing"
    /\ CanStart(c)
    /\ isInView' = [isInView EXCEPT ![c] = isIntersecting]
    /\ LET r == IF isIntersecting THEN StartAutoRotation(c, TRUE) ELSE PauseAutoRotation(c)
       IN  /\ intervalId' = [intervalId EXCEPT ![c] = r[1]]
           /\ timers' = [timers EXCEPT ![c] = r[2]]
    /\ UNCHANGED <<tabsVariant, tabShape, tabsInit, tabStatus, mediaMatches, currentTabIndex,
                   observer, listening>>
    /\ UNCHANGED notTabsVars

\* the media query changes: the 'change' listener of every instance that still has it
\* runs (setupIntersectionObserver, or pauseAutoRotation and disconnect)
MediaChange ==
    /\ mediaMatches' = ~mediaMatches
    /\ observer' = [c \in TabComponents |->
                       IF ~listening[c] THEN observer[c]
                       ELSE IF ~mediaMatches THEN "observing"
                       ELSE IF observer[c] = "none" THEN "none" ELSE "disconnected"]
    /\ intervalId' = [c \in TabComponents |->
                         IF listening[c] /\ mediaMatches THEN NULL ELSE intervalId[c]]
    /\ timers' = [c \in TabComponents |->
                     IF listening[c] /\ mediaMatches THEN PauseAutoRotation(c)[2] ELSE timers[c]]
    /\ UNCHANGED <<tabsVariant, tabShape, tabsInit, tabStatus, currentTabIndex, isInView,
                   listening>>
    /\ UNCHANGED notTabsVars

\* destroy(): abortController.abort() (switching-tabs.ts only), clearInterval,
\* intersectionObserver.disconnect()
TabsDestroy(c) ==
    /\ tabStatus[c] = "ready"
    /\ tabStatus' = [tabStatus EXCEPT ![c] = "destroyed"]
    /\ listening' = [listening EXCEPT ![c] = IF tabsVariant = "abortController" THEN FALSE ELSE @]
    /\ intervalId' = [intervalId EXCEPT ![c] = NULL]
    /\ timers' = [timers EXCEPT ![c] = PauseAutoRotation(c)[2]]
    /\ observer' = [observer EXCEPT ![c] = IF @ = "none" THEN "none" ELSE "disconnected"]
    /\ UNCHANGED <<tabsVariant, tabShape, tabsInit, mediaMatches, currentTabIndex, isInView>>
    /\ UNCHANGED notTabsVars

\* a page without switching-tabs components
TabsIdle ==
    /\ tabsVariant = "abortController"
    /\ tabShape = [c \in TabComponents |-> <<>>]
    /\ tabsInit = "none"
    /\ tabStatus = [c \in TabComponents |-> "none"]
    /\ mediaMatches = FALSE
    /\ currentTabIndex = [c \in TabComponents |-> 0]
    /\ intervalId = [c \in TabComponents |-> NULL]
    /\ timers = [c \in TabComponents |-> {}]
    /\ isInView = [c \in TabComponents |-> FALSE]
    /\ observer = [c \in TabComponents |-> "none"]
    /\ listening = [c \in TabComponents |-> FALSE]

\* a page with NumTabComponents switching-tabs components of any shape
InitTabs ==
    /\ tabsVariant \in TabsVariants
    /\ tabShape \in [TabComponents -> TabShapes]
    /\ tabsInit = "none"
    /\ tabStatus = [c \in TabComponents |-> "none"]
    /\ mediaMatches \in BOOLEAN
    /\ currentTabIndex = [c \in TabComponents |-> 0]
    /\ intervalId = [c \in TabComponents |-> NULL]
    /\ timers = [c \in TabComponents |-> {}]
    /\ isInView = [c \in TabComponents |-> FALSE]
    /\ observer = [c \in TabComponents |-> "none"]
    /\ listening = [c \in TabComponents |-> FALSE]

(***************************************************************************)
(* GSAPDragSlider: the constructor, setupAutoplay and the bootstrap         *)
(***************************************************************************)
\* the constructor returns before setupAutoplay when there are no slides, and
\* setupAutoplay returns at once unless the autoplay attribute is 'true'
HasAutoplay(g) == slidesCount[g] > 0 /\ gsapAutoplay[g]

\* the 'scriptLoaded' listener: new GSAPDragSlider(componentEl) for every component;
\* setupAutoplay leaves autoplayInterval null and an observer on the component
NewGSAPDragSlider ==
    /\ ~gsapInit
    /\ gsapInit' = TRUE
    /\ gsapObserving' = [g \in GsapSliders |-> HasAutoplay(g)]
    /\ UNCHANGED <<gsapAutoplay, slidesCount, autoplayInterval, gsapTimers, gsapIndex,
                   autoplayActive>>
    /\ UNCHANGED notGsapVars

\* startAutoplay sets an interval only if (autoplayInterval === null)
StartsWhenNull(g) == autoplayInterval[g] = NULL

\* startAutoplay(): <<autoplayInterval, live intervals>> after it
StartAutoplay(g) ==
    IF StartsWhenNull(g)
    THEN LET id == FreshId(gsapTimers[g])
         IN  <<id, gsapTimers[g] \cup {id}>>
    ELSE <<autoplayInterval[g], gsapTimers[g]>>

\* stopAutoplay(): clearInterval(autoplayInterval) and null, if it is not null
StopAutoplay(g) == <<NULL, gsapTimers[g] \ {autoplayInterval[g]}>>

\* the IntersectionObserver callback of setupAutoplay with an entry for the component:
\* start or stop, and the is-autoplay-active class added or removed
GsapIntersection(g, isIntersecting) ==
    /\ gsapObserving[g]
    /\ gsapTimers[g] # 1..MaxTimers
    /\ LET r == IF isIntersecting THEN StartAutoplay(g) ELSE StopAutoplay(g)
       IN  /\ autoplayInterval' = [autoplayInterval EXCEPT ![g] = r[1]]
           /\ gsapTimers' = [gsapTimers EXCEPT ![g] = r[2]]
    /\ autoplayActive' = [autoplayActive EXCEPT ![g] = isIntersecting]
    /\ UNCHANGED <<gsapAutoplay, slidesCount, gsapInit, gsapObserving, gsapIndex>>
    /\ UNCHANGED notGsapVars

\* the callback of a live interval: this.slider.next(), the loop moves to the next slide
AutoplayTick(g, id) ==
    /\ id \in gsapTimers[g]
    /\ gsapIndex' = [gsapIndex EXCEPT ![g] = (@ + 1) % slidesCount[g]]
    /\ UNCHANGED <<gsapAutoplay, slidesCount, gsapInit, autoplayInterval, gsapTimers,
                   gsapObserving, autoplayActive>>
    /\ UNCHANGED notGsapVars

\* a page without GSAPDragSlider components
GsapIdle ==
    /\ gsapAutoplay = [g \in GsapSliders |-> FALSE]
    /\ slidesCount = [g \in GsapSliders |-> 0]
    /\ gsapInit = FALSE
    /\ autoplayInterval = [g \in GsapSliders |-> NULL]
    /\ gsapTimers = [g \in GsapSliders |-> {}]
    /\ gsapObserving = [g \in GsapSliders |-> FALSE]
    /\ gsapIndex = [g \in GsapSliders |-> 0]
    /\ autoplayActive = [g \in GsapSliders |-> FALSE]

\* a page with NumGsapSliders components, with or without autoplay and slides
InitGsap ==
    /\ gsapAutoplay \in [GsapSliders -> BOOLEAN]
    /\ slidesCount \in [GsapSliders -> 0..MaxSlides]
    /\ gsapInit = FALSE
    /\ autoplayInterval = [g \in GsapSliders |-> NULL]
    /\ gsapTimers = [g \in GsapSliders |-> {}]
    /\ gsapObserving = [g \in GsapSliders |-> FALSE]
    /\ gsapIndex = [g \in GsapSliders |-> 0]
    /\ autoplayActive = [g \in GsapSliders |-> FALSE]

\* a page whose first switching-tabs component has a <summary> and a content div in
\* every <details>, and whose other components have no <details>
InitTabsWellFormed ==
    /\ InitTabs
    /\ \A t \in 1..Len(tabShape[1]) : tabShape[1][t] = "ok"
    /\ \A c \in TabComponents \ {1} : tabShape[c] = <<>>

(***************************************************************************)
(* dialog.ts: Dialog                                                       *)
(***************************************************************************)
NoId == ""

DialogIds == {"1", "2"}

IsDuplicate_Never(d) == FALSE

\* this.initializedIds.has(id) when init reaches dialog d: an earlier dialog with an
\* identifier carries the same one
IsDuplicate(d) == \E e \in Dialogs : e < d /\ dlgId[e] = dlgId[d]

\* the dialogs init registers: they have an identifier that is not yet initialized
Registered(d) == dlgId[d] # NoId /\ ~IsDuplicate(d)

\* document.querySelectorAll(`[data-dialog-open="${id}"]`)
OpenTriggersList(d) == {t \in Triggers : trigKind[t] = "open" /\ trigId[t] = dlgId[d]}

\* dialogEl.querySelectorAll(`[data-dialog-close="${id}"]`)
CloseTriggersList(d) ==
    {t \in Triggers : trigKind[t] = "close" /\ trigId[t] = dlgId[d] /\ trigIn[t] = d}

\* new Dialog(): init() adds the click listeners of every registered dialog
NewDialog ==
    /\ ~dlgInit
    /\ dlgInit' = TRUE
    /\ dlgBound' = UNION {(OpenTriggersList(d) \cup CloseTriggersList(d)) \X {d} :
                              d \in {e \in Dialogs : Registered(e)}}
    /\ UNCHANGED <<dlgId, trigKind, trigId, trigIn, modalOpen>>
    /\ UNCHANGED notDialogVars

\* a click on trigger t, which the user can reach (it is inside an open dialog, or no
\* dialog is open): its listeners call openDialog (showModal) or closeDialog (close)
TriggerClick(t) ==
    /\ dlgInit
    /\ IF trigIn[t] = NULL THEN \A d \in Dialogs : ~modalOpen[d] ELSE modalOpen[trigIn[t]]
    /\ modalOpen' = [d \in Dialogs |->
                        IF <<t, d>> \in dlgBound THEN trigKind[t] = "open" ELSE modalOpen[d]]
    /\ UNCHANGED <<dlgId, trigKind, trigId, trigIn, dlgInit, dlgBound>>
    /\ UNCHANGED notDialogVars

\* the open dialog d is dismissed with Esc or a click on it (handleBackdropClick)
DialogDismiss(d) ==
    /\ dlgInit
    /\ modalOpen[d]
    /\ modalOpen' = [modalOpen EXCEPT ![d] = FALSE]
    /\ UNCHANGED <<dlgId, trigKind, trigId, trigIn, dlgInit, dlgBound>>
    /\ UNCHANGED notDialogVars

(***************************************************************************)
(* dialog.ts: Dialog, the dialogOpen and dialogClose events                 *)
(***************************************************************************)
NoEpisode == [dialog |-> NULL, cause |-> "none", changed |-> FALSE, dialogOpen |-> 0, dialogClose |-> 0]

\* dialogEl.close(): the browser queues a close event when the dialog was open
CloseQueuedAfter(d) == IF modalOpen[d] THEN closeQueued \cup {d} ELSE closeQueued

\* the user can reach trigger t: it is inside an open dialog, or no dialog is open
Reachable(t) ==
    IF trigIn[t] = NULL THEN \A d \in Dialogs : ~modalOpen[d] ELSE modalOpen[trigIn[t]]

\* a click on an open trigger bound to dialog d: openDialog (showModal, dialogOpen)
OpenTriggerClick(t, d) ==
    /\ dlgInit
    /\ closeQueued = {}
    /\ Reachable(t)
    /\ trigKind[t] = "open"
    /\ <<t, d>> \in dlgBound
    /\ modalOpen' = [modalOpen EXCEPT ![d] = TRUE]
    /\ episode' = [dialog |-> d, cause |-> "open", changed |-> ~modalOpen[d],
                   dialogOpen |-> 1, dialogClose |-> 0]
    /\ UNCHANGED <<dlgId, trigKind, trigId, trigIn, dlgInit, dlgBound, closeQueued>>
    /\ UNCHANGED notDialogEventVars

\* closeDialog(dialogEl) with isAutoClosing = false: close(), then dialogClose
CloseDialog(d, cause) ==
    /\ modalOpen' = [modalOpen EXCEPT ![d] = FALSE]
    /\ closeQueued' = CloseQueuedAfter(d)
    /\ episode' = [dialog |-> d, cause |-> cause, changed |-> modalOpen[d],
                   dialogOpen |-> 0, dialogClose |-> 1]

\* a click on a close trigger bound to dialog d
CloseTriggerClick(t, d) ==
    /\ dlgInit
    /\ closeQueued = {}
    /\ Reachable(t)
    /\ trigKind[t] = "close"
    /\ <<t, d>> \in dlgBound
    /\ CloseDialog(d, "trigger")
    /\ UNCHANGED <<dlgId, trigKind, trigId, trigIn, dlgInit, dlgBound>>
    /\ UNCHANGED notDialogEventVars

\* a click whose target is the open dialog d itself, inside its rectangle:
\* handleBackdropClick listens on every dialog element
BackdropClick(d) ==
    /\ dlgInit
    /\ closeQueued = {}
    /\ modalOpen[d]
    /\ CloseDialog(d, "backdrop")
    /\ UNCHANGED <<dlgId, trigKind, trigId, trigIn, dlgInit, dlgBound>>
    /\ UNCHANGED notDialogEventVars

\* Esc on the open dialog d: the browser closes it and queues the close event
EscKey(d) ==
    /\ dlgInit
    /\ closeQueued = {}
    /\ modalOpen[d]
    /\ modalOpen' = [modalOpen EXCEPT ![d] = FALSE]
    /\ closeQueued' = closeQueued \cup {d}
    /\ episode' = [dialog |-> d, cause |-> "native", changed |-> TRUE,
                   dialogOpen |-> 0, dialogClose |-> 0]
    /\ UNCHANGED <<dlgId, trigKind, trigId, trigIn, dlgInit, dlgBound>>
    /\ UNCHANGED notDialogEventVars

\* the queued close event of dialog d fires: the listener of a registered dialog calls
\* closeDialog(dialogEl, true), which dispatches dialogClose
NativeClose(d) ==
    /\ d \in closeQueued
    /\ closeQueued' = closeQueued \ {d}
    /\ episode' = IF Registered(d) /\ episode.dialog = d
                  THEN [episode EXCEPT !.dialogClose = @ + 1]
                  ELSE episode
    /\ UNCHANGED dialogVars
    /\ UNCHANGED notDialogEventVars

DlgEventIdle ==
    /\ closeQueued = {}
    /\ episode = NoEpisode

\* a page without dialogs and triggers that carry an identifier
DialogIdle ==
    /\ dlgId = [d \in Dialogs |-> NoId]
    /\ trigKind = [t \in Triggers |-> "open"]
    /\ trigId = [t \in Triggers |-> "1"]
    /\ trigIn = [t \in Triggers |-> NULL]
    /\ dlgInit = FALSE
    /\ dlgBound = {}
    /\ modalOpen = [d \in Dialogs |-> FALSE]

\* a page with MaxDialogs dialogs and MaxTriggers triggers carrying any identifiers
InitDialog ==
    /\ dlgId \in [Dialogs -> DialogIds \cup {NoId}]
    /\ trigKind \in [Triggers -> {"open", "close"}]
    /\ trigId \in [Triggers -> DialogIds]
    /\ trigIn \in [Triggers -> Dialogs \cup {NULL}]
    /\ dlgInit = FALSE
    /\ dlgBound = {}
    /\ modalOpen = [d \in Dialogs |-> FALSE]

\* a page without video wraps
VimeoIdle ==
    /\ wrapInit = [w \in Wraps |-> "failed"]
    /\ isClickPlaying = [w \in Wraps |-> FALSE]
    /\ currentlyPlaying = NULL
    /\ playState = [w \in Wraps |-> "unset"]
    /\ paused = [w \in Wraps |-> TRUE]
    /\ pending = [w \in Wraps |-> <<>>]

InitLoader ==
    /\ scriptsEnv \in {"local", "cdn"}
    /\ hostname \in Hostnames
    /\ relativePathBase = relativePathBaseOf(scriptsEnv, hostname)
    /\ scripts = <<>>
    /\ calls = <<>>
    /\ events = <<>>
    /\ listeners = <<>>
    /\ webflowReady = FALSE
    /\ readyQueue = <<>>
    /\ scriptsRun = {}
    /\ constructed = [c \in Controllers |-> 0]
    /\ preloads = 0

\* the loader before any script ran, on the production host
LoaderIdle ==
    /\ InitLoader
    /\ scriptsEnv = "cdn"
    /\ hostname = <<"www.", "wesley", ".", "com">>

Init == InitLoader /\ VimeoIdle /\ StoryIdle /\ SliderIdle /\ TabsIdle /\ DialogIdle /\ GsapIdle /\ CondIdle /\ MarqueeIdle /\ CursorIdle /\ OptionIdle /\ ModalIdle /\ ObsIdle /\ DlgEventIdle /\ VpIdle /\ PanelIdle

(***************************************************************************)
(* story-slider.ts and content-modal.ts: the dialogs of the story items are *)
(* content modals                                                          *)
(***************************************************************************)
\* the content modal that is the dialog of story item i
ModalOf(i) == i + 1

\* a click on the prev or next button of the open dialog of story item i: handleScroll
\* either scrolls, or dispatches storyHandoff, which the listener of StorySlider
\* answers at once with handoffToAdjacentStory; the sliderJump event that one
\* dispatches on the target dialog runs handleScroll of the target's container
StoryNavClick(i, dir) ==
    LET m == ModalOf(i)
        t == NextStoryItemPos(i, dir, storyCount)
    IN  /\ i < storyCount
        /\ storyHasDialog[i]
        /\ dialogOpen[i]
        /\ modalBound[m]
        /\ IF AtBoundary(m, dir) /\ IsStorySliderOf(m)
           THEN /\ HandoffToAdjacentStory(i, dir)
                /\ IF storyHasDialog[t] /\ modalBound[ModalOf(t)]
                   THEN HandleScroll(ModalOf(t), JumpDirection(dir))
                   ELSE HandleScroll(m, dir)
           ELSE /\ HandleScroll(m, dir)
                /\ UNCHANGED storyVars
        /\ UNCHANGED <<modalShape, contentModalInit, isStorySlider, modalBound>>
        /\ UNCHANGED notStoryModalVars

\* the user scrolls the container of the open dialog of story item i by hand
StoryUserScroll(i, p) ==
    /\ i < storyCount
    /\ dialogOpen[i]
    /\ UserScroll(ModalOf(i), p)

\* a stories section of the storyHandoff class whose first two items may hold a
\* dialog, each a content modal
InitStoryModal ==
    /\ InitStory
    /\ storyVariant = "storyHandoff"
    /\ \A i \in Stories : storyHasDialog[i] => i < 2
    /\ InitModalPair

\* the loader under arbitrary page-level calls
NextLoader ==
    \/ \E url \in LoaderUrls, name \in LoaderNames : LoadScriptCall(url, name)
    \/ \E i \in 1..MaxCalls : ScriptOnload(i)
    \/ \E i \in 1..MaxCalls : ScriptOnerror(i)

SpecLoader == Init /\ [][NextLoader]_vars

\* the loader on a page that also runs the GSAP slider script
NextGsapBoot ==
    \/ NextLoader
    \/ RunGsapScript

SpecGsapBoot == Init /\ [][NextGsapBoot]_vars

\* the loader under page-level calls and runtime mode switches
NextMode ==
    \/ NextLoader
    \/ \E env \in {"local", "cdn"} : SetScriptMode(env)

SpecMode == Init /\ [][NextMode]_vars

\* the loader called with URLs of every form
NextResolve ==
    \/ \E url \in ResolveUrls, name \in LoaderNames : LoadScriptCall(url, name)
    \/ \E i \in 1..MaxCalls : ScriptOnload(i)
    \/ \E i \in 1..MaxCalls : ScriptOnerror(i)

SpecResolve == Init /\ [][NextResolve]_vars

\* the conditional loads of a page and the script elements they attach
NextCond ==
    \/ \E selector \in Selectors : ConditionalLoadScript(selector, UrlFor(selector))
    \/ \E i \in 1..MaxCalls : ScriptOnload(i)
    \/ \E i \in 1..MaxCalls : ScriptOnerror(i)

InitCondPage ==
    LoaderIdle /\ VimeoIdle /\ StoryIdle /\ SliderIdle /\ TabsIdle /\ DialogIdle /\ GsapIdle /\ InitCond /\ MarqueeIdle /\ CursorIdle /\ OptionIdle /\ ModalIdle /\ ObsIdle /\ DlgEventIdle /\ VpIdle /\ PanelIdle

SpecCond == InitCondPage /\ [][NextCond]_vars

\* the conditional loads of the ready callback and the script elements they attach
NextReady ==
    \/ UIFunctions
    \/ \E i \in 1..MaxCalls : ScriptOnload(i)
    \/ \E i \in 1..MaxCalls : ScriptOnerror(i)

SpecReady == InitCondPage /\ [][NextReady]_vars

\* the marquee lists of a page
NextMarquee ==
    \/ DuplicateMarqueeList

InitMarqueePage ==
    LoaderIdle /\ VimeoIdle /\ StoryIdle /\ SliderIdle /\ TabsIdle /\ DialogIdle /\ GsapIdle /\ CondIdle /\ InitMarquee /\ CursorIdle /\ OptionIdle /\ ModalIdle /\ ObsIdle /\ DlgEventIdle /\ VpIdle /\ PanelIdle

SpecMarquee == InitMarqueePage /\ [][NextMarquee]_vars

\* the cursor-follow container of a page
NextCursor ==
    \/ InitCursorFollow
    \/ \E r \in ContainerRects, size \in FollowerSizes : Layout(r, size)
    \/ \E type \in {"resize", "scroll"} : WindowEvent(type)
    \/ \E e \in PointerPositions : PointerEnter(e)
    \/ \E e \in PointerPositions : PointerMove(e)
    \/ PointerLeave

InitCursorPage ==
    LoaderIdle /\ VimeoIdle /\ StoryIdle /\ SliderIdle /\ TabsIdle /\ DialogIdle /\ GsapIdle /\ CondIdle /\ MarqueeIdle /\ InitCursor /\ OptionIdle /\ ModalIdle /\ ObsIdle /\ DlgEventIdle /\ VpIdle /\ PanelIdle

SpecCursor == InitCursorPage /\ [][NextCursor]_vars

\* the options of one slider
NextOption ==
    \/ InitSliderOptions

InitOptionPage ==
    LoaderIdle /\ VimeoIdle /\ StoryIdle /\ SliderIdle /\ TabsIdle /\ DialogIdle /\ GsapIdle /\ CondIdle /\ MarqueeIdle /\ CursorIdle /\ InitOption /\ ModalIdle /\ ObsIdle /\ DlgEventIdle /\ VpIdle /\ PanelIdle

SpecOption == InitOptionPage /\ [][NextOption]_vars

\* the content modals of a page
NextModal ==
    \/ NewContentModal
    \/ \E m \in Modals, direction \in {"prev", "next"} : ModalNavClick(m, direction)
    \/ \E m \in Modals, direction \in {"first", "last", "prev", "next"} : SliderJump(m, direction)
    \/ \E m \in Modals, p \in 0..(ModalWidth * MaxModalSlides) : UserScroll(m, p)

InitModalPage ==
    LoaderIdle /\ VimeoIdle /\ StoryIdle /\ SliderIdle /\ TabsIdle /\ DialogIdle /\ GsapIdle /\ CondIdle /\ MarqueeIdle /\ CursorIdle /\ OptionIdle /\ InitModal /\ ObsIdle /\ DlgEventIdle /\ VpIdle /\ PanelIdle

SpecModal == InitModalPage /\ [][NextModal]_vars

\* a page whose first two content modals are of any shape and whose further ones have
\* no scroll container
InitModalPairPage ==
    LoaderIdle /\ VimeoIdle /\ StoryIdle /\ SliderIdle /\ TabsIdle /\ DialogIdle /\ GsapIdle /\ CondIdle /\ MarqueeIdle /\ CursorIdle /\ OptionIdle /\ InitModalPair /\ ObsIdle /\ DlgEventIdle /\ VpIdle /\ PanelIdle

SpecModalPair == InitModalPairPage /\ [][NextModal]_vars

\* the story dialogs with their content modal sliders
NextStoryModal ==
    \/ NewContentModal
    \/ \E i \in Stories : OpenStory(i)
    \/ \E i \in Stories : CloseStory(i)
    \/ \E i \in Stories, p \in 0..(ModalWidth * MaxModalSlides) : StoryUserScroll(i, p)
    \/ \E i \in Stories, dir \in {"next", "prev"} : StoryNavClick(i, dir)

InitStoryModalPage ==
    LoaderIdle /\ VimeoIdle /\ SliderIdle /\ TabsIdle /\ DialogIdle /\ GsapIdle /\ CondIdle /\ MarqueeIdle /\ CursorIdle /\ OptionIdle /\ ObsIdle /\ DlgEventIdle /\ VpIdle /\ PanelIdle /\ InitStoryModal

SpecStoryModal == InitStoryModalPage /\ [][NextStoryModal]_vars

\* one InlineVimeoPlayer instance under intersection changes, awaited calls and destroy
NextObs ==
    \/ \E w \in Wraps, intersecting \in BOOLEAN : QueueEntry(w, intersecting)
    \/ ObserverCallback
    \/ \E i \in 1..(NumWraps * MaxEntries) : InitializeVideoResume(i)
    \/ \E i \in 1..(NumWraps * MaxEntries) : InitializeVideoRejected(i)
    \/ Destroy

InitObsPage ==
    LoaderIdle /\ VimeoIdle /\ StoryIdle /\ SliderIdle /\ TabsIdle /\ DialogIdle /\ GsapIdle /\ CondIdle /\ MarqueeIdle /\ CursorIdle /\ OptionIdle /\ ModalIdle /\ InitObs /\ DlgEventIdle /\ VpIdle /\ PanelIdle

SpecObs == InitObsPage /\ [][NextObs]_vars

\* one VimeoPlayers container under pointer events and player answers
NextVp ==
    \/ CallResolved
    \/ CallRejected
    \/ Playback
    \/ TimeUpdate
    \/ VpMouseEnter
    \/ VpMouseLeave
    \/ ContainerClick
    \/ PlayPauseClick

InitVpPage ==
    LoaderIdle /\ VimeoIdle /\ StoryIdle /\ SliderIdle /\ TabsIdle /\ DialogIdle /\ GsapIdle /\ CondIdle /\ MarqueeIdle /\ CursorIdle /\ OptionIdle /\ ModalIdle /\ ObsIdle /\ DlgEventIdle /\ InitVp /\ PanelIdle

SpecVp == InitVpPage /\ [][NextVp]_vars

\* one switching-tabs component under clicks, rotations and animation completions
NextPanel ==
    \/ \E index \in PanelTabs : PanelClick(index)
    \/ PanelRotate
    \/ \E t \in PanelTabs : CloseTweenComplete(t)
    \/ \E t \in PanelTabs : OpenTweenComplete(t)

InitPanelPage ==
    LoaderIdle /\ VimeoIdle /\ StoryIdle /\ SliderIdle /\ TabsIdle /\ DialogIdle /\ GsapIdle /\ CondIdle /\ MarqueeIdle /\ CursorIdle /\ OptionIdle /\ ModalIdle /\ ObsIdle /\ DlgEventIdle /\ VpIdle /\ InitPanel

SpecPanel == InitPanelPage /\ [][NextPanel]_vars

\* the component scripts of one page and the signals they wait for
NextBoot ==
    \/ RunSliderScript
    \/ \E ctrl \in {"InlineVimeoPlayer", "VimeoPlayers"} : RunVideoScript(ctrl)
    \/ WebflowReady
    \/ \E url \in PreloadUrls : Preload(url)
    \/ \E i \in 1..(3 + MaxPreloads) : ScriptOnload(i)
    \/ \E i \in 1..(3 + MaxPreloads) : ScriptOnerror(i)

SpecBoot == Init /\ [][NextBoot]_vars

\* one InlineVimeoPlayer instance under pointer events and player acknowledgements
NextVimeo ==
    \/ \E w \in Wraps : IntersectionCallback(w)
    \/ \E w \in Wraps : InitializeVideoDone(w)
    \/ \E w \in Wraps : InitializeVideoFails(w)
    \/ \E w \in Wraps : MouseEnter(w)
    \/ \E w \in Wraps : MouseLeave(w)
    \/ \E w \in Wraps : Click(w)
    \/ \E w \in Wraps : Ended(w)
    \/ \E p \in Wraps : MouseEnterResume(p)
    \/ \E p \in Wraps : MouseLeaveResume(p)
    \/ \E p \in Wraps : ClickResume(p)
    \/ \E p \in Wraps : HandlerRejected(p)

InitVimeoPage == LoaderIdle /\ InitVimeo /\ StoryIdle /\ SliderIdle /\ TabsIdle /\ DialogIdle /\ GsapIdle /\ CondIdle /\ MarqueeIdle /\ CursorIdle /\ OptionIdle /\ ModalIdle /\ ObsIdle /\ DlgEventIdle /\ VpIdle /\ PanelIdle

SpecVimeo == InitVimeoPage /\ [][NextVimeo]_vars

\* one stories section: dialogs opened, closed and handed off
NextStory ==
    \/ \E i \in Stories, dir \in {"next", "prev"} : StoryHandoff(i, dir)
    \/ \E i \in Stories : OpenStory(i)
    \/ \E i \in Stories : CloseStory(i)

InitStoryPage == LoaderIdle /\ VimeoIdle /\ InitStory /\ SliderIdle /\ TabsIdle /\ DialogIdle /\ GsapIdle /\ CondIdle /\ MarqueeIdle /\ CursorIdle /\ OptionIdle /\ ModalIdle /\ ObsIdle /\ DlgEventIdle /\ VpIdle /\ PanelIdle

SpecStory == InitStoryPage /\ [][NextStory]_vars

\* the Slider controller constructed on a page
NextSlider ==
    \/ NewSlider

InitSliderPage == LoaderIdle /\ VimeoIdle /\ StoryIdle /\ InitSlider /\ TabsIdle /\ DialogIdle /\ GsapIdle /\ CondIdle /\ MarqueeIdle /\ CursorIdle /\ OptionIdle /\ ModalIdle /\ ObsIdle /\ DlgEventIdle /\ VpIdle /\ PanelIdle

SpecSlider == InitSliderPage /\ [][NextSlider]_vars

\* the AutoRotatingTabs instances of a page
NextTabs ==
    \/ InitAutoRotatingTabs
    \/ \E c \in TabComponents, index \in 0..(MaxTabs - 1) : TabClick(c, index)
    \/ \E c \in TabComponents, id \in 1..MaxTimers : RotateToNext(c, id)
    \/ \E c \in TabComponents, b \in BOOLEAN : TabsIntersection(c, b)
    \/ MediaChange
    \/ \E c \in TabComponents : TabsDestroy(c)

InitTabsPage == LoaderIdle /\ VimeoIdle /\ StoryIdle /\ SliderIdle /\ InitTabs /\ DialogIdle /\ GsapIdle /\ CondIdle /\ MarqueeIdle /\ CursorIdle /\ OptionIdle /\ ModalIdle /\ ObsIdle /\ DlgEventIdle /\ VpIdle /\ PanelIdle

SpecTabs == InitTabsPage /\ [][NextTabs]_vars

\* the components of a page that run interval timers
NextTimers ==
    \/ NextTabs
    \/ NewGSAPDragSlider
    \/ \E g \in GsapSliders, b \in BOOLEAN : GsapIntersection(g, b)
    \/ \E g \in GsapSliders, id \in 1..MaxTimers : AutoplayTick(g, id)

InitTimersPage ==
    LoaderIdle /\ VimeoIdle /\ StoryIdle /\ SliderIdle /\ InitTabsWellFormed /\ DialogIdle /\ InitGsap /\ CondIdle /\ MarqueeIdle /\ CursorIdle /\ OptionIdle /\ ModalIdle /\ ObsIdle /\ DlgEventIdle /\ VpIdle /\ PanelIdle

SpecTimers == InitTimersPage /\ [][NextTimers]_vars

\* the Dialog controller of a page
NextDialog ==
    \/ NewDialog
    \/ \E t \in Triggers : TriggerClick(t)
    \/ \E d \in Dialogs : DialogDismiss(d)

InitDialogPage ==
    LoaderIdle /\ VimeoIdle /\ StoryIdle /\ SliderIdle /\ TabsIdle /\ InitDialog /\ GsapIdle /\ CondIdle /\ MarqueeIdle /\ CursorIdle /\ OptionIdle /\ ModalIdle /\ ObsIdle /\ DlgEventIdle /\ VpIdle /\ PanelIdle

SpecDialog == InitDialogPage /\ [][NextDialog]_vars

\* the Dialog controller of a page with the events it dispatches
NextDialogEvents ==
    \/ NewDialog
    \/ \E t \in Triggers, d \in Dialogs : OpenTriggerClick(t, d)
    \/ \E t \in Triggers, d \in Dialogs : CloseTriggerClick(t, d)
    \/ \E d \in Dialogs : BackdropClick(d)
    \/ \E d \in Dialogs : EscKey(d)
    \/ \E d \in Dialogs : NativeClose(d)

SpecDialogEvents == InitDialogPage /\ [][NextDialogEvents]_vars

Spec == SpecLoader

(***************************************************************************)
(* Claims about the loader (SpecLoader) and the bootstraps (SpecBoot)      *)
(***************************************************************************)
\* number of <script> elements whose src is u
CountSrc(u) == Cardinality({i \in 1..Len(scripts) : scripts[i].src = u})

\* the <script> element a call attached
ScriptOfCall(i) == CHOOSE k \in 1..Len(scripts) : scripts[k].call = i

C3_NamedSignalDispatched ==
    \A i \in 1..Len(calls) :
        (calls[i].name # NoName /\ Loaded(finalUrlOf(calls[i].url))) =>
            \E a \in 1..Len(events) : events[a].type = <<"scriptLoaded:", calls[i].name>>

\* C4 (as stated): once the library has loaded, a controller whose script has run
\* (and, for InlineVimeoPlayer, whose ready callback has run) has been constructed,
\* whether the library loaded before or after the controller started waiting.
C4_LateSubscriptionConstructs ==
    /\ ("Slider" \in scriptsRun /\ Loaded(SwiperUrl)) => constructed["Slider"] >= 1
    /\ ("InlineVimeoPlayer" \in scriptsRun /\ webflowReady /\ Loaded(VimeoUrl)) =>
           constructed["InlineVimeoPlayer"] >= 1

\* C5 (as stated): a promise returned by loadScript is resolved only when the script
\* at the resolved URL has finished loading.
C5_ResolvedOnlyWhenLoaded ==
    \A i \in 1..Len(calls) :
        calls[i].promise = "resolved" => Loaded(finalUrlOf(calls[i].url))

\* C6: when the attached element reports a load error, the promise of the call that
\* attached it is rejected with a message naming the resolved URL, and no completion
\* signal has been dispatched for that URL.
C6_ErrorRejects ==
    \A k \in 1..Len(scripts) :
        scripts[k].status = "error" =>
            LET c == calls[scripts[k].call]
            IN  /\ c.promise = "rejected"
                /\ c.error = <<"Failed to load script: ">> \o finalUrlOf(c.url)
                /\ ~\E a \in 1..Len(events) : events[a].detail.url = finalUrlOf(c.url)

\* C6 witness: a named call with a relative URL whose element reported an error.
C6_Witness ==
    \E k \in 1..Len(scripts) :
        /\ scripts[k].status = "error"
        /\ calls[scripts[k].call].name # NoName
        /\ ~isAbsolute(calls[scripts[k].call].url)
        /\ calls[scripts[k].call].promise = "rejected"

\* C7: a completion signal is dispatched at most once per resolved URL, only for a
\* script that has loaded, and its payload carries the resolved URL and the name of
\* the call that attached the script.
C7_SignalOncePerUrl ==
    /\ \A a, b \in 1..Len(events) : events[a].detail.url = events[b].detail.url => a = b
    /\ \A a \in 1..Len(events) :
          /\ Loaded(events[a].detail.url)
          /\ events[a].detail.name # NoName
          /\ events[a].type = <<"scriptLoaded:", events[a].detail.name>>
          /\ \E i \in 1..Len(calls) :
                /\ calls[i].attached
                /\ calls[i].name = events[a].detail.name
                /\ finalUrlOf(calls[i].url) = events[a].detail.url

\* C7 witness: two named calls for one relative URL, the script loaded, one signal.
C7_Witness ==
    \E i, j \in 1..Len(calls) :
        /\ i < j
        /\ ~isAbsolute(calls[i].url)
        /\ finalUrlOf(calls[i].url) = finalUrlOf(calls[j].url)
        /\ calls[i].name # NoName /\ calls[j].name # NoName
        /\ Loaded(finalUrlOf(calls[i].url))
        /\ Cardinality({a \in 1..Len(events) :
                           events[a].detail.url = finalUrlOf(calls[i].url)}) = 1

(***************************************************************************)
(* Claims about InlineVimeoPlayer (SpecVimeo)                              *)
(***************************************************************************)
\* C2 (as stated): in every reachable state at most one wrap is in committed
\* (click-playing) state.
C2_AtMostOneCommitted ==
    Cardinality({w \in Wraps : isClickPlaying[w]}) <= 1

\* number of mouseleave handlers of wrap w that have called player.pause()
HoverPauses(w, q) ==
    Cardinality({k \in 1..Len(q[w]) : q[w][k].kind = "mouseleave" /\ q[w][k].pc = "pause"})

\* C8 (as stated): while a wrap stays committed, no step changes its data-play-state
\* away from 'playing' and no mouseleave handler calls pause() on its player.
C8_ClickPrecedence ==
    [][\A w \in Wraps :
          (isClickPlaying[w] /\ isClickPlaying'[w]) =>
              /\ playState[w] = "playing" => playState'[w] = "playing"
              /\ HoverPauses(w, pending') <= HoverPauses(w, pending)]_vars

\* the step is the acknowledgement of the pause of wrap a that the click handler of
\* wrap b awaits (await instance.pauseVideo())
PauseAckedTo(a, b) ==
    /\ pending[a] # <<>>
    /\ Head(pending[a]).kind = "click"
    /\ Head(pending[a]).pc = "pauseOther"
    /\ Head(pending[a]).wrap = b
    /\ Head(pending[a]).prev = a
    /\ paused'[a]

\* C9 (as stated): a step marks wrap B committed while another wrap A holds committed
\* state only as the continuation of the acknowledgement of A's pause, so the pause
\* of A is acknowledged before B is marked committed and before B's unmuted
\* playback (setMuted(false), setVolume(1), play()) is started.
C9_PauseAckedBeforeCommit ==
    [][\A b \in Wraps :
          (~isClickPlaying[b] /\ isClickPlaying'[b]) =>
              \A a \in Wraps \ {b} : isClickPlaying[a] => PauseAckedTo(a, b)]_vars

(***************************************************************************)
(* Claims about StorySlider (SpecStory)                                    *)
(***************************************************************************)
\* C10 (as stated): with N story containers, a hand-off with direction next raised
\* from container i opens the dialog of container (i+1) mod N, and one with direction
\* prev opens the dialog of container (i-1) mod N (container N-1 when i = 0), whenever
\* that container has a dialog.
C10_BoundaryWrapAround ==
    lastHandoff # NoHandoff =>
        LET i == lastHandoff.from
            N == storyCount
            t == IF lastHandoff.dir = "next" THEN (i + 1) % N ELSE (i + N - 1) % N
        IN  storyHasDialog[t] =>
                \E k \in 1..Len(handoffEvents) :
                    handoffEvents[k] = [type |-> "dialogOpen", dialog |-> t]

\* the dialogs on which the events evs of a hand-off include a dialogOpen
HandoffTargets(evs) ==
    {evs[k].dialog : k \in {n \in 1..Len(evs) : evs[n].type = "dialogOpen"}}

\* C11 (as stated): every step that completes a boundary hand-off (it reached its
\* target dialog, for any number N >= 1 of containers) ends with the dialog of the
\* target container open and the dialog of every other container closed.
C11_HandoffLeavesTargetOpen ==
    [][\A i \in Stories, dir \in {"next", "prev"} :
          (StoryHandoff(i, dir) /\ handoffEvents' # <<>>) =>
              \A t \in HandoffTargets(handoffEvents') :
                  /\ dialogOpen'[t]
                  /\ \A j \in Stories \ {t} : ~dialogOpen'[j]]_vars

(***************************************************************************)
(* Claims about Slider (SpecSlider)                                        *)
(***************************************************************************)
\* the elements a Swiper instance is bound to
BoundEls(sw) == {sw.el, sw.prevEl, sw.nextEl, sw.paginationEl} \ {NULL}

\* C12 (as stated): every element a Swiper instance of component C is bound to (the
\* .swiper element, nav-prev, nav-next, pagination) has C as its nearest enclosing
\* component root, and no element is bound by the instances of two components.
C12_SelfScoping ==
    /\ \A k \in 1..Len(swipers) :
          \A e \in BoundEls(swipers[k]) : closest(e, "component") = swipers[k].component
    /\ \A k, l \in 1..Len(swipers) :
          k # l => BoundEls(swipers[k]) \cap BoundEls(swipers[l]) = {}

(***************************************************************************)
(* Claims about AutoRotatingTabs (SpecTabs)                                *)
(***************************************************************************)
\* a component whose <details> all have a <summary> and a content div
WellFormed(shape) == Len(shape) > 0 /\ \A t \in 1..Len(shape) : shape[t] = "ok"

\* C13 (as stated): once initAutoRotatingTabs has run, it has not thrown to its
\* caller and every well-formed component has its instance, whatever sub-elements
\* the other components lack.
C13_FailureIsolation ==
    tabsInit # "none" =>
        /\ tabsInit = "done"
        /\ \A c \in TabComponents :
              WellFormed(tabShape[c]) => tabStatus[c] \in {"ready", "destroyed"}

\* C15 (as stated): from destroy() on, whatever tab clicks, media-query changes and
\* intersection changes follow, the instance has no live interval, its intersection
\* observer is disconnected and its listeners change nothing of its state.
C15_DestroyReleasesAll ==
    [][\A c \in TabComponents :
          tabStatus[c] = "destroyed" =>
              /\ timers'[c] = {}
              /\ intervalId'[c] = NULL
              /\ observer'[c] # "observing"
              /\ currentTabIndex'[c] = currentTabIndex[c]]_vars

\* C16: no overlapping timers: in every reachable state each AutoRotatingTabs
\* instance and each GSAPDragSlider instance has at most one interval that is set
\* and not cleared, and it is the one the instance holds the id of
C16_NoOverlappingTimers ==
    /\ \A c \in TabComponents :
          /\ Cardinality(timers[c]) <= 1
          /\ timers[c] \subseteq {intervalId[c]}
    /\ \A g \in GsapSliders :
          /\ Cardinality(gsapTimers[g]) <= 1
          /\ gsapTimers[g] \subseteq {autoplayInterval[g]}

\* an instance of each class has replaced or kept its interval: a tab rotated while
\* its timer runs, and an autoplay timer ticked
C16_Witness ==
    /\ \E c \in TabComponents : timers[c] # {} /\ currentTabIndex[c] > 0
    /\ \E g \in GsapSliders : gsapTimers[g] # {} /\ gsapIndex[g] > 0


(***************************************************************************)
(* Claims about the environment mode (SpecMode)                            *)
(***************************************************************************)
\* C17: after the environment mode is switched at runtime to mode m, every
\* subsequent loadScript call with a relative URL resolves it against the base URL
\* of mode m
C17_SwitchedModeResolves ==
    [][\A url \in LoaderUrls, name \in LoaderNames :
          (LoadScriptCall(url, name) /\ ~isAbsolute(url)) =>
              calls'[Len(calls')].finalUrl = relativePathBaseOf(scriptsEnv, hostname) \o url]_vars

\* C18: switching the environment mode leaves every attached or loaded script
\* element unchanged: none is removed, re-attached or fetched again
C18_ModeSwitchIsolation ==
    [][scriptsEnv' # scriptsEnv => scripts' = scripts /\ preloads' = preloads]_vars

\* the mode was switched after a script had loaded and while another is in flight
C18_Witness ==
    /\ relativePathBase # relativePathBaseOf(scriptsEnv, hostname)
    /\ \E i \in 1..Len(scripts) : scripts[i].status = "loaded"
    /\ \E i \in 1..Len(scripts) : scripts[i].status = "loading"

(***************************************************************************)
(* Claims about URL resolution (SpecResolve)                               *)
(***************************************************************************)
\* the production origin with the given branch segment
ProductionOrigin(segment) ==
    <<HTTPS, "cdn.jsdelivr.net/gh/igniteagency/{{repo}}">> \o segment \o <<"/dist/prod/">>

\* C19: the script base is the local development origin iff the mode is local when
\* the entry point runs; otherwise it is the production origin, with branch segment
\* '@dev' iff the page hostname contains 'webflow.io' and with no branch segment
\* otherwise. A URL passed to loadScript is used unchanged iff it starts with
\* 'https://', and is otherwise prefixed with the script base.
C19_BaseUrlResolution ==
    /\ relativePathBase = LOCAL_SERVER <=> scriptsEnv = "local"
    /\ scriptsEnv # "local" =>
          /\ includes(hostname, "webflow.io") <=> relativePathBase = ProductionOrigin(<<"@", "dev">>)
          /\ ~includes(hostname, "webflow.io") <=> relativePathBase = ProductionOrigin(<<>>)
    /\ \A i \in 1..Len(calls) :
          /\ calls[i].finalUrl = calls[i].url <=> calls[i].url[1] = "https://"
          /\ calls[i].finalUrl # calls[i].url => calls[i].finalUrl = relativePathBase \o calls[i].url

\* loadScript has been called with an https, a plain-http and a relative URL
C19_Witness ==
    /\ \E i \in 1..Len(calls) : calls[i].url = SwiperUrl
    /\ \E i \in 1..Len(calls) : calls[i].url = HttpUrl /\ calls[i].attached
    /\ \E i \in 1..Len(calls) : calls[i].url = RelUrl /\ calls[i].attached

(***************************************************************************)
(* Claims about the conditional bootstrap (SpecCond)                       *)
(***************************************************************************)
\* C20: for every selector with zero matching elements in the document,
\* conditionalLoadScript(selector, url) attaches no script element and issues no
\* network request
C20_ConditionalNoOp ==
    [][\A selector \in Selectors :
          (ConditionalLoadScript(selector, UrlFor(selector)) /\ matches[selector] = 0) =>
              scripts' = scripts /\ calls' = calls /\ preloads' = preloads]_vars

\* conditionalLoadScript has been called with a selector that matches nothing, after
\* a call with a matching selector attached a script
C20_Witness ==
    /\ Len(scripts) > 0
    /\ condCalls # <<>>
    /\ matches[condCalls[Len(condCalls)]] = 0

\* how many times x occurs in the sequence q
RECURSIVE Occurrences(_, _)
Occurrences(q, x) ==
    IF q = <<>> THEN 0 ELSE (IF Head(q) = x THEN 1 ELSE 0) + Occurrences(Tail(q), x)

\* the loadScript calls made with url
Delegations(url) == Cardinality({i \in 1..Len(calls) : calls[i].url = url})

\* C21: for every selector with one or more matching elements, conditionalLoadScript
\* delegates to the loader exactly once whatever the number of matches, and the
\* selector is evaluated a single time, at the host-ready signal, and never again
C21_SingleEvaluation ==
    /\ ~webflowReady => condCalls = <<>> /\ calls = <<>>
    /\ webflowReady =>
          \A selector \in Selectors :
              /\ Occurrences(condCalls, selector) = 1
              /\ matches[selector] > 0 => Delegations(UrlFor(selector)) = 1

\* the ready callback ran on a page with several matches for a selector, and the
\* script it asked for has loaded
C21_Witness ==
    /\ webflowReady
    /\ \E selector \in Selectors :
          /\ matches[selector] > 1
          /\ \E i \in 1..Len(scripts) :
                scripts[i].src = finalUrlOf(UrlFor(selector)) /\ scripts[i].status = "loaded"

(***************************************************************************)
(* Claims about the marquee lists (SpecMarquee)                            *)
(***************************************************************************)
\* the positions of the marquee lists of the page
ListPositions == {m \in 1..Len(marqueeDoc) : marqueeDoc[m].list}

\* the marquee lists the page was loaded with
Originals == {m \in ListPositions : marqueeDoc[m].copy = 0}

\* C22: one invocation of duplicateMarqueeList on a page with k marquee lists inserts
\* exactly one clone immediately after each original, in original document order,
\* and ends with exactly 2k lists
C22_OneCloneEach ==
    marqueeDone =>
        /\ \A m \in Originals :
              LET next == SubtreeEnd(marqueeDoc, m) + 1
              IN  /\ next <= Len(marqueeDoc)
                  /\ marqueeDoc[next].id = marqueeDoc[m].id
                  /\ marqueeDoc[next].copy = marqueeDoc[m].id
                  /\ marqueeDoc[next].depth = marqueeDoc[m].depth
        /\ \A m, n \in Originals : m < n => marqueeDoc[m].id < marqueeDoc[n].id
        /\ Cardinality(ListPositions) = 2 * Cardinality(Originals)

(***************************************************************************)
(* Claims about cursor-follow (SpecCursor)                                 *)
(***************************************************************************)
\* C23 as stated: the cached container rectangle is refreshed only in response to
\* resize and scroll events; a pointer-move event, and every other event, leaves the
\* cached rectangle unchanged
C23_RefreshOnlyOnResizeScroll ==
    [][rect' # rect => lastEvent' \in {"resize", "scroll"}]_vars

\* C23 amended: the cached container rectangle is refreshed only when a resize, a
\* scroll or a pointerenter event is handled; a pointermove or pointerleave event,
\* and a change of layout without event, leaves it unchanged
C23_RefreshOnlyOnResizeScrollEnter ==
    [][/\ rect' # rect => lastEvent' \in {"resize", "scroll", "pointerenter"}
       /\ (PointerLeave \/ \E e \in PointerPositions : PointerMove(e)) => rect' = rect]_vars

\* a pointermove was handled while the cached rectangle was out of date
C23_Witness ==
    /\ lastEvent = "pointermove"
    /\ cursorStatus = "listening"
    /\ rect # containerRect

(***************************************************************************)
(* Claims about the slider options (SpecOption)                            *)
(***************************************************************************)
\* what the options must be for attribute values that are plainly valid or plainly
\* not: absent, empty, an integer, a decimal, 'auto', a word that is no number
ExpectedSpaceBetween ==
    [a \in {Absent, Attr(<<>>), Attr(<<"a", "b", "c">>), Attr(<<"2", "4">>), Attr(<<"-", "4">>)} |->
        IF a = Attr(<<"2", "4">>) THEN Number(24)
        ELSE IF a = Attr(<<"-", "4">>) THEN Number(-4)
        ELSE Number(32)]

ExpectedSlidesPerView ==
    [a \in {Absent, Attr(<<>>), Attr(<<"a", "b", "c">>), Attr(<<"a", "u", "t", "o">>),
            Attr(<<"2">>), Attr(<<"1", ".", "5">>)} |->
        IF a = Attr(<<"2">>) THEN Number(20)
        ELSE IF a = Attr(<<"1", ".", "5">>) THEN Number(15)
        ELSE Auto]

FalseWords == {<<"f", "a", "l", "s", "e">>, <<"0">>, <<"n", "o">>, <<"o", "f", "f">>}

\* the numeric options follow the attributes, and initialisation has not failed
NumericOptionsAsExpected ==
    /\ swiperOptions.status = "done"
    /\ wrapperAttrs.spaceBetween \in DOMAIN ExpectedSpaceBetween =>
          swiperOptions.spaceBetween = ExpectedSpaceBetween[wrapperAttrs.spaceBetween]
    /\ wrapperAttrs.slidesPerView \in DOMAIN ExpectedSlidesPerView =>
          swiperOptions.slidesPerView = ExpectedSlidesPerView[wrapperAttrs.slidesPerView]

\* C24 as stated: initialisation does not fail and uses the parsed value when it is
\* valid and the default otherwise (32, 'auto', true, true); the boolean attributes
\* are false exactly for 'false', '0', 'no', 'off' in any letter case
C24_OptionParsing ==
    swiperOptions # NoOptions =>
        /\ NumericOptionsAsExpected
        /\ ~swiperOptions.centeredSlides <=>
              (wrapperAttrs.centeredSlides.present
                  /\ toLowerCase(wrapperAttrs.centeredSlides.value) \in FalseWords)
        /\ ~swiperOptions.loop <=>
              (wrapperAttrs.loop.present /\ toLowerCase(wrapperAttrs.loop.value) \in FalseWords)

\* C24 amended: as stated, but the boolean attributes are false exactly for the
\* values that are 'false', '0', 'no' or 'off' in any letter case once surrounding
\* white space is removed
C24_OptionParsingTrimmed ==
    swiperOptions # NoOptions =>
        /\ NumericOptionsAsExpected
        /\ ~swiperOptions.centeredSlides <=>
              (wrapperAttrs.centeredSlides.present
                  /\ toLowerCase(trim(wrapperAttrs.centeredSlides.value)) \in FalseWords)
        /\ ~swiperOptions.loop <=>
              (wrapperAttrs.loop.present
                  /\ toLowerCase(trim(wrapperAttrs.loop.value)) \in FalseWords)

\* the options were read from a wrapper with an unparseable spacing, a decimal
\* slidesPerView, an upper-case false word and an unknown word
C24_Witness ==
    /\ swiperOptions # NoOptions
    /\ wrapperAttrs.spaceBetween = Attr(<<"a", "b", "c">>)
    /\ wrapperAttrs.slidesPerView = Attr(<<"1", ".", "5">>)
    /\ wrapperAttrs.centeredSlides = Attr(<<"O", "f", "f">>)
    /\ wrapperAttrs.loop = Attr(<<"m", "a", "y", "b", "e">>)

(***************************************************************************)
(* Claims about construction and the ready signal (SpecBoot)               *)
(***************************************************************************)
\* C25: no component controller instance is constructed before the host-ready
\* signal has fired, whatever the order in which the ready signal and the library
\* completion signals arrive
C25_ConstructedAfterReady ==
    ~webflowReady => \A c \in Controllers : constructed[c] = 0

(***************************************************************************)
(* Claims about the content modals (SpecModal)                             *)
(***************************************************************************)
\* C26: on a page with several content modals of mixed type, each modal decides by
\* its own data-modal-type what happens at a boundary: a modal of type 'stories'
\* dispatches storyHandoff and does not scroll, and a modal of any other type wraps
\* its own scroll position and dispatches no storyHandoff
C26_OwnTypeDecides ==
    [][\A m \in Modals, direction \in {"prev", "next"} :
          (ModalNavClick(m, direction) /\ AtBoundary(m, direction)) =>
              IF modalShape[m].type = "stories"
              THEN lastScroll'.outcome = "storyHandoff" /\ scrollLeft' = scrollLeft
              ELSE /\ lastScroll'.outcome = "scrollTo"
                   /\ scrollLeft'[m] = IF direction = "next" THEN 0 ELSE maxScrollOf(m)]_vars

(***************************************************************************)
(* Claims about the committed flags of InlineVimeoPlayer (SpecVimeo)       *)
(***************************************************************************)
\* C27: this.currentlyPlaying and the isClickPlaying flags of the wraps agree in every
\* reachable state: currentlyPlaying is wrap w exactly when isClickPlaying of w is set
C27_ReferenceAgreesWithFlags ==
    \A w \in Wraps : (currentlyPlaying = w) <=> isClickPlaying[w]

(***************************************************************************)
(* Claims about failed loads (SpecLoader)                                  *)
(***************************************************************************)
\* a load of the final URL f has failed
HasFailed(f) == \E i \in 1..Len(calls) : calls[i].finalUrl = f /\ calls[i].promise = "rejected"

WithinTolerance(m, direction) ==
    IF direction = "next" THEN maxScrollOf(m) - scrollLeft[m] <= 5 ELSE scrollLeft[m] <= 5

\* one container width further in the direction
OneWidthOn(m, direction) ==
    IF direction = "next" THEN scrollLeft[m] + ModalWidth ELSE scrollLeft[m] - ModalWidth

\* C35 (as stated): storyHandoff is dispatched only from a position within the
\* tolerance of the boundary; from every other position a next or prev request moves
\* the scroll by one container width and dispatches no hand-off
C35_HandoffOnlyAtBoundary ==
    [][\A m \in Modals, direction \in {"prev", "next"} :
          ModalNavClick(m, direction) =>
              /\ lastScroll'.outcome = "storyHandoff" => WithinTolerance(m, direction)
              /\ ~WithinTolerance(m, direction) =>
                     /\ lastScroll'.outcome = "scrollTo"
                     /\ scrollLeft'[m] = OneWidthOn(m, direction)]_vars

\* C35 (amended): storyHandoff is dispatched only from a position within the tolerance
\* of the boundary; from every other position a next or prev request dispatches no
\* hand-off and scrolls to the position one container width on, kept by the browser
\* within 0..maxScroll
C35_HandoffOnlyAtBoundaryClamped ==
    [][\A m \in Modals, direction \in {"prev", "next"} :
          ModalNavClick(m, direction) =>
              /\ lastScroll'.outcome = "storyHandoff" => WithinTolerance(m, direction)
              /\ ~WithinTolerance(m, direction) =>
                     /\ lastScroll'.outcome = "scrollTo"
                     /\ scrollLeft'[m] = Max(0, Min(OneWidthOn(m, direction), maxScrollOf(m)))]_vars

\* a hand-off was requested a few pixels before the end
C35_Witness ==
    /\ lastScroll.outcome = "storyHandoff"
    /\ lastScroll.direction = "next"
    /\ scrollLeft[lastScroll.modal] = maxScrollOf(lastScroll.modal) - 3
    /\ maxScrollOf(lastScroll.modal) > 0

(***************************************************************************)
(* Claims about the hand-off between story dialogs (SpecStoryModal)        *)
(***************************************************************************)
\* the click in the dialog of item i hands off to the dialog of another item, which
\* has an inner slider
HandsOff(i, dir) ==
    /\ StoryNavClick(i, dir)
    /\ AtBoundary(ModalOf(i), dir) /\ IsStorySliderOf(ModalOf(i))
    /\ storyHasDialog[NextStoryItemPos(i, dir, storyCount)]
    /\ modalBound[ModalOf(NextStoryItemPos(i, dir, storyCount))]

\* C34: after a hand-off with direction next the inner slider of the target dialog is
\* at scroll 0, after one with direction prev it is at its maximum scroll, and the
\* inner slider of every other dialog is where it was
C34_TargetJumps ==
    [][\A i \in Stories, dir \in {"next", "prev"} :
          HandsOff(i, dir) =>
              LET target == ModalOf(NextStoryItemPos(i, dir, storyCount))
              IN  /\ scrollLeft'[target] = IF dir = "next" THEN 0 ELSE maxScrollOf(target)
                  /\ \A m \in Modals \ {target} : scrollLeft'[m] = scrollLeft[m]]_vars

\* a hand-off with direction prev has put the other dialog's slider at its last
\* position
C34_Witness ==
    /\ lastHandoff.dir = "prev"
    /\ lastHandoff.from >= 0
    /\ LET t == NextStoryItemPos(lastHandoff.from, "prev", storyCount)
       IN  /\ t # lastHandoff.from
           /\ dialogOpen[t]
           /\ lastScroll = [modal |-> ModalOf(t), direction |-> "last", outcome |-> "scrollTo"]
           /\ scrollLeft[ModalOf(t)] = maxScrollOf(ModalOf(t))
           /\ maxScrollOf(ModalOf(t)) > 0

(***************************************************************************)
(* Claims about the tab animations of AutoRotatingTabs (SpecPanel)         *)
(***************************************************************************)
\* no open or close animation is pending
NoTweenPending == \A t \in PanelTabs : closeTweens[t] = 0 /\ ~openTween[t]

\* C36: currentTabIndex stays within 0..N-1, and whenever no animation is pending the
\* tab at currentTabIndex is open, every other tab is closed and no tab carries the
\* is-closing class
C36_OneOpenTab ==
    /\ panelIndex \in 0..(panelCount - 1)
    /\ NoTweenPending =>
           /\ panelOpen[panelIndex]
           /\ \A t \in PanelTabs \ {panelIndex} : ~panelOpen[t]
           /\ \A t \in PanelTabs : ~panelClosing[t]

(***************************************************************************)
(* Claims about autoplay and visibility (SpecTimers)                        *)
(***************************************************************************)
\* C37: an AutoRotatingTabs interval is live only while the media query matches and
\* the last visibility report of the component (this.isInView) was intersecting, and
\* a GSAPDragSlider autoplay interval is live exactly when the last visibility
\* report of the component (which sets the is-autoplay-active class) was intersecting
C37_AutoplayOnlyInView ==
    /\ \A c \in TabComponents : timers[c] # {} => mediaMatches /\ isInView[c]
    /\ \A g \in GsapSliders : gsapObserving[g] => (gsapTimers[g] # {} <=> autoplayActive[g])
    /\ \A g \in GsapSliders : ~gsapObserving[g] => gsapTimers[g] = {}

\* a tabs component rotates in view after a click restarted its interval, while a
\* GSAP slider that was reported out of view after running has no interval
C37_Witness ==
    /\ \E c \in TabComponents :
           timers[c] # {} /\ isInView[c] /\ mediaMatches /\ currentTabIndex[c] > 0
    /\ \E g \in GsapSliders : gsapObserving[g] /\ ~autoplayActive[g] /\ gsapIndex[g] > 0

\* a tabs component out of view, on a page whose media query matches, was clicked
C37_WitnessOutOfView ==
    \E c \in TabComponents :
        listening[c] /\ mediaMatches /\ ~isInView[c] /\ currentTabIndex[c] > 0 /\ timers[c] = {}

(***************************************************************************)
(* Claims about the bootstrap of GSAPDragSlider (SpecGsapBoot)              *)
(***************************************************************************)
\* C38: once the GSAP slider script has run, the completion signal the loader
\* broadcasts for a loaded named resource runs the script's listener, which
\* constructs the GSAPDragSlider instances
C38_ConstructedOnSignal ==
    [][("GSAPDragSlider" \in scriptsRun /\ Len(events') > Len(events)) =>
           constructed'["GSAPDragSlider"] = constructed["GSAPDragSlider"] + 1]_vars

\* the listener of the GSAP slider script has never run
C38_NeverConstructed == constructed["GSAPDragSlider"] = 0

(***************************************************************************)
(* Claims about the clamping of cursor-follow (SpecCursor)                  *)
(***************************************************************************)
\* the follower coordinates were computed by localXY in the last event handled
JustPlaced == cursorStatus = "listening" /\ lastEvent \in {"pointerenter", "pointermove"}

\* the cached container is at least the follower plus the margin on both sides, in
\* both directions
Roomy == rect.width >= followerW + 2 * margin /\ rect.height >= followerH + 2 * margin

\* the coordinates lie between the bounds localXY computes (all doubled)
WithinBounds ==
    /\ followerW + 2 * margin <= followerXY.x
    /\ followerXY.x <= 2 * rect.width - followerW - 2 * margin
    /\ followerH + 2 * margin <= followerXY.y
    /\ followerXY.y <= 2 * rect.height - followerH - 2 * margin

\* C39: for every pointer position and every container and follower size the
\* coordinates localXY returns satisfy minX <= x <= maxX and minY <= y <= maxY
C39_Clamped == JustPlaced => WithinBounds

\* the bounds are kept whenever the container has room for the follower and its margins
C39_ClampedWhenRoomy == (JustPlaced /\ Roomy) => WithinBounds

\* a pointer outside a roomy container was clamped to its bounds
C39_WitnessRoomy ==
    /\ JustPlaced
    /\ Roomy
    /\ followerXY.x = 2 * rect.width - followerW - 2 * margin

(***************************************************************************)
(* Claims about lazy initialisation and destroy of InlineVimeoPlayer       *)
(* (SpecObs)                                                                *)
(***************************************************************************)
\* C29: for every video wrap at most one Vimeo player is ever constructed and at most
\* one set of hover/click listeners attached, whatever entries the observer delivers
C29_OnePlayerPerWrap ==
    \A w \in Wraps : playersConstructed[w] <= 1 /\ listenerSets[w] <= 1

\* C30: once destroy() has returned the observer observes nothing, every player that
\* was constructed has been destroyed, and videoInstances is empty and stays empty
C30_DestroyedForGood ==
    observerDestroyed =>
        /\ observing = {}
        /\ \A w \in Wraps : playersDestroyed[w] = playersConstructed[w]
        /\ videoInstances = {}

(***************************************************************************)
(* Claims about the dialog events (SpecDialogEvents)                       *)
(***************************************************************************)
\* C31: once the events of a user operation have been delivered, a closing of a
\* registered dialog (close trigger, backdrop click or Esc) has dispatched exactly one
\* dialogClose on it, and an opening by an open trigger exactly one dialogOpen
C31_OneEventPerTransition ==
    (closeQueued = {} /\ episode.dialog # NULL /\ episode.changed /\ Registered(episode.dialog)) =>
        IF episode.cause = "open"
        THEN episode.dialogOpen = 1 /\ episode.dialogClose = 0
        ELSE episode.dialogClose = 1 /\ episode.dialogOpen = 0

(***************************************************************************)
(* Claims about VimeoPlayers (SpecVp)                                      *)
(***************************************************************************)
\* C32: a click on the play/pause button inside the container toggles playback: once
\* the calls it started have resolved, a player that was playing is paused, one that
\* was paused is playing, and the position has not been set anew
C32_ButtonToggles ==
    (toggle.active /\ chains = <<>>) =>
        /\ vpPaused = ~toggle.wasPaused
        /\ ~toggle.seeked

\* C33: once a click has put the container in full mode it stays in full mode, and no
\* call of a mouseenter, mouseleave or rewind chain mutes the player, sets its volume
\* to 0, moves it to the snippet start or pauses it any more
C33_FullModeSuppressesHover ==
    [][isFullMode =>
          /\ isFullMode'
          /\ ~(/\ CallResolved
               /\ Head(chains).kind \in HoverKinds
               /\ Head(chains).call \in {"setMuted", "setVolume", "setCurrentTime", "pause"})]_vars

(***************************************************************************)
(* Claims about Dialog (SpecDialog)                                        *)
(***************************************************************************)
\* the dialogs that carry identifier id, and the first of them in document order
DialogsWithId(id) == {d \in Dialogs : dlgId[d] = id}

FirstDialog(id) == CHOOSE d \in DialogsWithId(id) : \A e \in DialogsWithId(id) : d <= e

\* the dialogs a click on trigger t acts on
BoundTo(t) == {d \in Dialogs : <<t, d>> \in dlgBound}

\* C14 (as stated): once Dialog is initialised, every open and every close trigger
\* that carries the identifier of some dialog is bound to the first dialog with that
\* identifier and to no other.
C14_TriggersBoundToFirst ==
    dlgInit =>
        \A t \in Triggers :
            DialogsWithId(trigId[t]) # {} => BoundTo(t) = {FirstDialog(trigId[t])}

\* C14 (as amended): only the first dialog with an identifier is registered; every
\* open trigger with the identifier, and every close trigger with the identifier that
\* is inside that first dialog, is bound to the first dialog and to no other; a close
\* trigger elsewhere is bound to nothing; and a click on an open trigger opens the
\* first dialog and changes no other dialog.
C14_FirstRegistrationWins ==
    /\ [](dlgInit =>
             \A t \in Triggers :
                 IF DialogsWithId(trigId[t]) = {} THEN BoundTo(t) = {}
                 ELSE LET f == FirstDialog(trigId[t])
                      IN  BoundTo(t) = IF trigKind[t] = "open" \/ trigIn[t] = f THEN {f} ELSE {})
    /\ [][\A t \in Triggers :
              (TriggerClick(t) /\ trigKind[t] = "open" /\ DialogsWithId(trigId[t]) # {}) =>
                  \A d \in Dialogs :
                      modalOpen'[d] = IF d = FirstDialog(trigId[t]) THEN TRUE ELSE modalOpen[d]]_vars

\* C14 witness: three dialogs share an identifier, an open trigger carrying it was
\* clicked and only the first dialog is open.
C14_Witness ==
    /\ dlgInit
    /\ \E id \in DialogIds :
          /\ Cardinality(DialogsWithId(id)) >= 2
          /\ \E t \in Triggers : trigKind[t] = "open" /\ trigId[t] = id
          /\ \A d \in Dialogs : modalOpen[d] <=> d = FirstDialog(id)

=============================================================================
